---- MODULE Spec2Model ----
(***************************************************************************)
(* Model of the WhatsApp-CLI background daemon (daemon/server.ts,          *)
(* daemon/state.ts), its newline-delimited JSON-RPC protocol, and the      *)
(* client-side connection strategy (utils/connect.ts, utils/ipc.ts).       *)
(*                                                                         *)
(* One step of the model is one run-to-completion turn of the Node.js      *)
(* event loop in the process concerned: the synchronous body of a          *)
(* callback together with the promise reactions (microtasks) it queues.    *)
(* Timers, setImmediate callbacks, I/O completions and awaited Session     *)
(* operations are separate, later steps.                                   *)
(***************************************************************************)
EXTENDS Integers, Sequences, FiniteSets, TLC

(***************************************************************************)
(* Bounds of the model.                                                    *)
(***************************************************************************)
\* Number of characters of the secret token (64 hex characters in the code).
TokenLen == 2
\* Number of client connections the daemon accepts.
NConn == 1
\* Total number of lines the clients write, over all connections.
MaxLines == 2
\* The same, where the clients write lines of every kind.
MaxLinesOfAnyKind == 1
\* Number of characters of the strings of a descriptor written to disk.
MaxStringLen == 2
\* Number of ticks of the poll of daemon start that fall within its budget
\* (95 s at one tick per 600 ms in the code).
PollTicks == 2
\* Number of checks of the file that daemon stop makes within its budget
\* (8 s at one check per 400 ms in the code).
StopPolls == 2
\* Number of lines a proxy call receives that answer no request of it.
MaxStray == 1
\* Depth of nesting of the arrays and objects of a result.
MaxDepth == 2

Conns == 1..NConn
\* The connections of a daemon that serves one client more.
Peers == 1..(NConn + 1)

(***************************************************************************)
(* JSON values a request can carry as its token.  A string is a sequence   *)
(* of code points; code points below 128 are ASCII.                        *)
(***************************************************************************)
Undefined == [type |-> "undefined", v |-> <<>>]
Str(s) == [type |-> "string", v |-> s]
Arr(s) == [type |-> "array", v |-> s]
Num == [type |-> "number", v |-> <<5>>]

\* An ASCII character that is no character of the secret.
OtherChar == TokenLen + 1

\* crypto.randomBytes(32).toString('hex'): a string of ASCII characters.
SECRET_TOKEN == Str([i \in 1..TokenLen |-> i])

\* The token read from a descriptor left on disk by an earlier daemon.
OLD_TOKEN == Str([i \in 1..TokenLen |-> OtherChar])

WithLast(s, ch) == [i \in 1..Len(s) |-> IF i = Len(s) THEN ch ELSE s[i]]

\* The token values a request is sent with.
TokenValues ==
    { SECRET_TOKEN,                                      \* the secret
      Undefined,                                         \* absent
      Str(<<>>),                                         \* empty
      Str(SubSeq(SECRET_TOKEN.v, 1, TokenLen - 1)),      \* shorter
      Str(Append(SECRET_TOKEN.v, OtherChar)),            \* longer
      Str(WithLast(SECRET_TOKEN.v, OtherChar)),          \* same length, other content
      Str(WithLast(SECRET_TOKEN.v, 200)),                \* same length, other byte length
      Num,                                               \* a number
      Arr(WithLast(SECRET_TOKEN.v, OtherChar)),          \* an array of other numbers
      Arr(SECRET_TOKEN.v) }                              \* an array of the secret's char codes

\* JavaScript truthiness of a token value (!token).
Truthy(t) ==
    CASE t.type = "undefined" -> FALSE
      [] t.type = "string" -> Len(t.v) > 0
      [] t.type = "number" -> t.v # <<0>>
      [] OTHER -> TRUE

\* The .length property: -1 stands for undefined.
JsLength(t) == IF t.type \in {"string", "array"} THEN Len(t.v) ELSE -1

RECURSIVE Utf8(_)
Utf8(s) ==
    IF s = <<>> THEN <<>>
    ELSE (IF Head(s) < 128 THEN <<Head(s)>>
          ELSE <<192 + (Head(s) \div 64), 128 + (Head(s) % 64)>>) \o Utf8(Tail(s))

\* Buffer.from(x): UTF-8 of a string, the elements modulo 256 of an array.
BufferFrom(t) ==
    IF t.type = "string" THEN Utf8(t.v) ELSE [i \in 1..Len(t.v) |-> t.v[i] % 256]

\* timingSafeEqual(a, b): "true", "false", or "throw" (crypto.timingSafeEqual
\* raises a RangeError when the two buffers differ in byte length).
timingSafeEqual(a, b) ==
    IF JsLength(a) # JsLength(b) THEN "false"
    ELSE IF Len(BufferFrom(a)) # Len(BufferFrom(b)) THEN "throw"
    ELSE IF BufferFrom(a) = BufferFrom(b) THEN "true"
    ELSE "false"

(***************************************************************************)
(* Requests, the characters of the wire, and JSON.parse of a line.         *)
(***************************************************************************)
SessionMethods ==
    {"getThreads", "searchThreads", "findChatByName", "getMessages",
     "sendMessage", "sendFile", "replyToMessage"}
Methods == {"ping", "getStatus", "stop"} \cup SessionMethods
\* A method name outside the closed set.
MethodNames == Methods \cup {"bogus"}

\* The id of a request that has no id field.
NoId == "undefined"

Req(id, method, token) == [id |-> id, method |-> method, token |-> token]
NoReq == Req(NoId, "undefined", Undefined)

\* Characters: newline, space, the two braces and the members of a JSON
\* object, the literals null and 5 and [], and a character that starts no
\* JSON value.
Ch(c) == [c |-> c, r |-> NoReq]
NL == Ch("\n")
SP == Ch(" ")
LB == Ch("{")
RB == Ch("}")
Members(r) == [c |-> "members", r |-> r]

\* The line of a request, and the other lines a client can write.
RequestLine(r) == <<LB, Members(r), RB>>
NullLine == <<Ch("null")>>
NumberLine == <<Ch("5")>>
ArrayLine == <<Ch("[]")>>
JunkLine == <<Ch("x")>>
TruncatedLine(r) == <<LB, Members(r)>>
BlankLine == <<SP>>

RECURSIVE TrimLeft(_)
TrimLeft(s) == IF s # <<>> /\ Head(s) = SP THEN TrimLeft(Tail(s)) ELSE s
RECURSIVE TrimRight(_)
TrimRight(s) ==
    IF s # <<>> /\ s[Len(s)] = SP THEN TrimRight(SubSeq(s, 1, Len(s) - 1)) ELSE s
\* String.prototype.trim
Trim(s) == TrimRight(TrimLeft(s))

\* JSON.parse(line): the parsed value, or a SyntaxError.
SyntaxError == [j |-> "SyntaxError", r |-> NoReq]
JsonParse(line) ==
    LET t == Trim(line) IN
    IF Len(t) = 3 /\ t[1] = LB /\ t[2].c = "members" /\ t[3] = RB
        THEN [j |-> "object", r |-> t[2].r]
    ELSE IF t = NullLine THEN [j |-> "null", r |-> NoReq]
    ELSE IF t = NumberLine THEN [j |-> "number", r |-> NoReq]
    ELSE IF t = ArrayLine THEN [j |-> "array", r |-> NoReq]
    ELSE SyntaxError

\* buf.split('\n'): the pieces between the newlines, the last one included.
RECURSIVE Split(_)
Split(s) ==
    IF \A i \in 1..Len(s) : s[i] # NL THEN <<s>>
    ELSE LET i == CHOOSE k \in 1..Len(s) :
                      s[k] = NL /\ \A m \in 1..(k - 1) : s[m] # NL
         IN <<SubSeq(s, 1, i - 1)>> \o Split(SubSeq(s, i + 1, Len(s)))

(***************************************************************************)
(* handleRequest.                                                          *)
(***************************************************************************)
Result(id, val) == [id |-> id, has |-> "result", val |-> val]
Error(id, val) == [id |-> id, has |-> "error", val |-> val]
NoResp == [id |-> NoId, has |-> "none", val |-> <<>>]

Return(resp) == [k |-> "return", resp |-> resp, stop |-> FALSE, err |-> ""]
ReturnAndStop(resp) == [k |-> "return", resp |-> resp, stop |-> TRUE, err |-> ""]
Await == [k |-> "await", resp |-> NoResp, stop |-> FALSE, err |-> ""]
Throw(err) == [k |-> "throw", resp |-> NoResp, stop |-> FALSE, err |-> err]

\* The mutant of Dispatch: a name outside the closed set is passed on to
\* the Session.
DispatchAnyName(id, method) ==
    CASE method = "ping" -> Return(Result(id, <<"pong">>))
      [] method = "getStatus" -> Return(Result(id, <<"status">>))
      [] method = "stop" -> ReturnAndStop(Result(id, <<"stopping">>))
      [] OTHER -> Await

\* The switch of handleRequest, reached by an authorized request.
Dispatch(id, method) ==
    CASE method = "ping" -> Return(Result(id, <<"pong">>))
      [] method = "getStatus" -> Return(Result(id, <<"status">>))
      [] method \in SessionMethods -> Await
      [] method = "stop" -> ReturnAndStop(Result(id, <<"stopping">>))
      [] OTHER -> Return(Error(id, <<"Unknown RPC method: ", method>>))

\* The fields handleRequest destructures from a parsed value that is not
\* null: those of an object, undefined ones of a number or an array.
Fields(pj) == IF pj.j = "object" THEN pj.r ELSE NoReq

\* handleRequest(client, server, req) up to its first suspension: it
\* returns a response (and may schedule the shutdown), suspends on a
\* Session operation, or throws.
HandleRequest(pj) ==
    IF pj.j = "null" THEN Throw("TypeError")
    ELSE LET r == Fields(pj) IN
         IF ~Truthy(r.token) THEN Return(Error(r.id, <<"Unauthorized">>))
         ELSE LET eq == timingSafeEqual(r.token, SECRET_TOKEN) IN
              CASE eq = "throw" -> Throw("RangeError")
                [] eq = "false" -> Return(Error(r.id, <<"Unauthorized">>))
                [] OTHER -> Dispatch(r.id, r.method)

\* What a Session operation does when it ends: it returns a value (v is
\* <<>> for undefined) or throws an Error with a message (v is <<>> for the
\* empty message).
Returns(v) == [k |-> "return", v |-> v]
Throws(v) == [k |-> "throw", v |-> v]
Outcomes == {Returns(<<"value">>), Returns(<<>>), Throws(<<"boom">>), Throws(<<>>)}

\* The operations of the Session that return nothing, and the outcomes of
\* the operation that a method calls (client.ts 114-269): findChatByName
\* returns a thread or undefined, the others that return something return
\* an array.
VoidMethods == {"sendMessage", "sendFile", "replyToMessage"}
OutcomesOf(method) ==
    {o \in Outcomes :
        o.k = "return" =>
            CASE method \in VoidMethods -> o.v = <<>>
              [] method = "findChatByName" -> TRUE
              [] OTHER -> o.v # <<>>}

\* The mutant of Resume: the result is what the operation returned.
ResumeWithReturned(req, o) ==
    IF o.k = "throw" THEN Error(req.id, o.v) ELSE Result(req.id, o.v)

\* The mutant of Resume: the error member is String(err), the message
\* behind the name of the error.
ResumeWithStringOfError(req, o) ==
    IF o.k = "throw" THEN Error(req.id, <<"Error: ">> \o o.v)
    ELSE IF req.method \in VoidMethods \/ o.v = <<>> THEN Result(req.id, <<"null">>)
    ELSE Result(req.id, o.v)

\* The response of a handler that was suspended on a Session operation,
\* when the operation returns or throws (lines 149-192 and 205-207): the
\* value returned, null for an operation that returns nothing and for
\* `thread ?? null`, or the message of the error.
Resume(req, o) ==
    IF o.k = "throw" THEN Error(req.id, o.v)
    ELSE IF req.method \in VoidMethods \/ o.v = <<>> THEN Result(req.id, <<"null">>)
    ELSE Result(req.id, o.v)

\* JSON.stringify(resp) of the .then callback: the members of the line
\* written.  A member whose value is undefined is left out: the id of a
\* request that had none, a result that is undefined.
Line(resp) ==
    (IF resp.id # NoId THEN {"id"} ELSE {})
    \cup (IF resp.has = "error" \/ (resp.has = "result" /\ resp.val # <<>>)
             THEN {resp.has} ELSE {})

(***************************************************************************)
(* State.                                                                  *)
(***************************************************************************)
VARIABLES
    pc,          \* where the daemon's main module stands
    exitCode,    \* the daemon's exit status, -1 while it runs
    boot,        \* the boot wait of the daemon and of connectClient
    listener,    \* the daemon's net.Server
    sigHandlers, \* signals the daemon has a once-handler for
    file,        \* the content of ~/.whatsapp-cli/daemon.json
    session,     \* calls made on the daemon's WhatsAppClient
    immediates,  \* setImmediate callbacks of the daemon not yet run
    shutdowns,   \* invocations of shutdown() that are suspended
    sock,        \* per connection: the daemon's socket
    wire,        \* per connection: characters written by the client, not yet read
    buf,         \* per connection: the handler's buf
    out,         \* per connection: the response lines written
    sent,        \* per connection: the lines the client wrote (history)
    inflight,    \* handlers suspended on a Session operation
    cli          \* a command running connectClient

daemonVars == <<pc, exitCode, listener, sigHandlers, session, immediates, shutdowns>>
connVars == <<sock, wire, buf, out, sent, inflight>>
vars == <<pc, exitCode, boot, listener, sigHandlers, file, session, immediates,
          shutdowns, sock, wire, buf, out, sent, inflight, cli>>

(***************************************************************************)
(* The descriptor file.                                                    *)
(***************************************************************************)
Absent == [kind |-> "absent", port |-> "", token |-> Undefined]
Empty == [kind |-> "empty", port |-> "", token |-> Undefined]
Descriptor(port, token) == [kind |-> "descriptor", port |-> port, token |-> token]

\* The port the operating system gives the daemon, and the port of an
\* earlier daemon, on which nothing listens.
DaemonPort == "port"
OldPort == "old port"

\* The descriptor the daemon writes (lines 314-320).
DaemonState == Descriptor(DaemonPort, SECRET_TOKEN)
\* What an earlier daemon that did not shut down left on disk.
StaleState == Descriptor(OldPort, OLD_TOKEN)

(***************************************************************************)
(* The boot wait: new Promise((resolve, reject) => ...) around the         *)
(* Session's events.                                                       *)
(***************************************************************************)
Waiters == {"daemon", "connect"}

\* Before the Session is constructed.
BootIdle ==
    [promise |-> "idle", timer |-> FALSE, qr |-> FALSE, ready |-> FALSE,
     error |-> FALSE, init |-> FALSE, first |-> "none"]
\* After the executor ran: timer armed, three once-listeners, initialize() called.
BootStarted ==
    [promise |-> "pending", timer |-> TRUE, qr |-> TRUE, ready |-> TRUE,
     error |-> TRUE, init |-> TRUE, first |-> "none"]

\* The mutant of Settle: a later resolve or reject replaces the outcome.
SettleLast(promise, outcome) == outcome

\* resolve() or reject() of a promise: only the first call settles it.
Settle(promise, outcome) == IF promise = "pending" THEN outcome ELSE promise

\* The history variable first: the first event of the wait.
First(b, event) == IF b.first = "none" THEN event ELSE b.first

\* client.once('qr', ...): clearTimeout, reject(not logged in).
OnQr(b) ==
    [b EXCEPT !.qr = FALSE, !.timer = FALSE,
              !.promise = Settle(@, "rejected: not logged in"),
              !.first = First(b, "qr")]

\* client.once('ready', ...): clearTimeout, resolve().
OnReady(b) ==
    [b EXCEPT !.ready = FALSE, !.timer = FALSE,
              !.promise = Settle(@, "resolved"),
              !.first = First(b, "ready")]

\* client.once('error', ...): clearTimeout, reject(err).
OnError(b) ==
    [b EXCEPT !.error = FALSE, !.timer = FALSE,
              !.promise = Settle(@, "rejected: error"),
              !.first = First(b, "error")]

\* client.initialize().catch(...): clearTimeout, reject(err).
OnInitRejected(b) ==
    [b EXCEPT !.init = FALSE, !.timer = FALSE,
              !.promise = Settle(@, "rejected: initialize"),
              !.first = First(b, "initialize")]

\* The setTimeout callback: reject(timed out).
OnTimeout(b) ==
    [b EXCEPT !.timer = FALSE,
              !.promise = Settle(@, "rejected: timed out"),
              !.first = First(b, "timeout")]

(***************************************************************************)
(* The daemon process: boot, listen, write the descriptor.                 *)
(***************************************************************************)
DaemonAlive == pc # "exited"

\* The process ends: its listener, callbacks and handlers go with it
\* (sigHandlers keeps which signals had been handled).
Exit(code) ==
    /\ pc' = "exited"
    /\ exitCode' = code
    /\ listener' = IF listener = "none" THEN "none" ELSE "closed"
    /\ sigHandlers' = sigHandlers
    /\ immediates' = <<>>
    /\ shutdowns' = <<>>
    /\ inflight' = <<>>

\* The main module after `await new Promise(...)` of the boot wait: on
\* resolve it goes on to server.listen, on reject the rejection of the
\* top-level await ends the process with status 1.
DaemonBoot(nb) ==
    /\ DaemonAlive
    /\ boot' = [boot EXCEPT !["daemon"] = nb]
    /\ IF boot["daemon"].promise = "pending" /\ nb.promise = "resolved"
          THEN /\ pc' = "listen"
               /\ UNCHANGED <<exitCode, listener, sigHandlers, immediates,
                              shutdowns, inflight>>
       ELSE IF boot["daemon"].promise = "pending" /\ nb.promise # "pending"
          THEN Exit(1)
       ELSE UNCHANGED <<pc, exitCode, listener, sigHandlers, immediates,
                        shutdowns, inflight>>
    /\ UNCHANGED <<file, session, sock, wire, buf, out, sent, cli>>

DaemonQr == boot["daemon"].qr /\ DaemonBoot(OnQr(boot["daemon"]))
DaemonReady == boot["daemon"].ready /\ DaemonBoot(OnReady(boot["daemon"]))
DaemonError == boot["daemon"].error /\ DaemonBoot(OnError(boot["daemon"]))
DaemonInitRejected ==
    boot["daemon"].init /\ DaemonBoot(OnInitRejected(boot["daemon"]))
DaemonInitResolved ==
    boot["daemon"].init /\ DaemonBoot([boot["daemon"] EXCEPT !.init = FALSE])
DaemonTimeout == boot["daemon"].timer /\ DaemonBoot(OnTimeout(boot["daemon"]))

\* server.listen(0, '127.0.0.1', ...) succeeds: the main module goes on to
\* build the descriptor and call writeDaemonState.
ListenOk ==
    /\ pc = "listen"
    /\ listener' = "listening"
    /\ pc' = "writeState"
    /\ UNCHANGED <<exitCode, boot, sigHandlers, file, session, immediates,
                   shutdowns, sock, wire, buf, out, sent, inflight, cli>>

\* server.once('error', reject): the bind fails.
ListenFail ==
    /\ pc = "listen"
    /\ Exit(1)
    /\ UNCHANGED <<boot, file, session, sock, wire, buf, out, sent, cli>>

\* writeDaemonState rejects: fs.mkdir or fs.writeFile fails, before the file
\* is opened or after it was truncated.
WriteFail ==
    /\ pc \in {"writeState", "writing"}
    /\ Exit(1)
    /\ UNCHANGED <<boot, file, session, sock, wire, buf, out, sent, cli>>

\* The mutant of WriteOpen: the descriptor is written before server.listen.
WriteOpenBeforeListen ==
    /\ pc = "listen"
    /\ pc' = "writing"
    /\ file' = Empty
    /\ UNCHANGED <<exitCode, boot, listener, sigHandlers, session, immediates,
                   shutdowns, sock, wire, buf, out, sent, inflight, cli>>

\* writeDaemonState: fs.writeFile opens the file with O_CREAT | O_TRUNC.
WriteOpen ==
    /\ pc = "writeState"
    /\ pc' = "writing"
    /\ file' = Empty
    /\ UNCHANGED <<exitCode, boot, listener, sigHandlers, session, immediates,
                   shutdowns, sock, wire, buf, out, sent, inflight, cli>>

\* writeDaemonState: the content is written and the file closed; the main
\* module registers the signal handlers (lines 327-331).
WriteDone ==
    /\ pc = "writing"
    /\ pc' = "serving"
    /\ file' = DaemonState
    /\ sigHandlers' = {"SIGTERM", "SIGINT"}
    /\ UNCHANGED <<exitCode, boot, listener, session, immediates,
                   shutdowns, sock, wire, buf, out, sent, inflight, cli>>

(***************************************************************************)
(* shutdown().                                                             *)
(***************************************************************************)
\* shutdown(client, server, logger) up to its first await: server.close()
\* and the call of client.destroy().
Shutdown(origin) ==
    /\ listener' = "closed"
    /\ session' = [session EXCEPT !.destroys = @ + 1]
    /\ shutdowns' = Append(shutdowns, [origin |-> origin, at |-> "destroy"])

\* The setImmediate callback of a stop request runs.
RunImmediate ==
    /\ DaemonAlive
    /\ immediates # <<>>
    /\ immediates' = Tail(immediates)
    /\ Shutdown(Head(immediates))
    /\ UNCHANGED <<pc, exitCode, boot, sigHandlers, file, sock, wire, buf,
                   out, sent, inflight, cli>>

\* onSignal: process.once('SIGTERM' | 'SIGINT', onSignal).
OnSignal(sig) ==
    /\ DaemonAlive
    /\ sig \in sigHandlers
    /\ sigHandlers' = sigHandlers \ {sig}
    /\ Shutdown([by |-> sig, conn |-> 0, pos |-> 0])
    /\ UNCHANGED <<pc, exitCode, boot, file, immediates, sock, wire, buf,
                   out, sent, inflight, cli>>

\* await client.destroy().catch(() => {}) returns; removeDaemonState is called.
DestroyReturns(i) ==
    /\ DaemonAlive
    /\ i \in 1..Len(shutdowns)
    /\ shutdowns[i].at = "destroy"
    /\ shutdowns' = [shutdowns EXCEPT ![i].at = "unlink"]
    /\ UNCHANGED <<pc, exitCode, boot, listener, sigHandlers, file, session,
                   immediates, sock, wire, buf, out, sent, inflight, cli>>

\* The mutant of RemoveAndExit: the descriptor is removed and the process
\* exits without waiting for client.destroy().
RemoveAndExitBeforeDestroyed(i) ==
    /\ DaemonAlive
    /\ i \in 1..Len(shutdowns)
    /\ file' = Absent
    /\ Exit(0)
    /\ UNCHANGED <<boot, session, sock, wire, buf, out, sent, cli>>

\* removeDaemonState: fs.unlink is done; process.exit(0).
RemoveAndExit(i) ==
    /\ DaemonAlive
    /\ i \in 1..Len(shutdowns)
    /\ shutdowns[i].at = "unlink"
    /\ file' = Absent
    /\ Exit(0)
    /\ UNCHANGED <<boot, session, sock, wire, buf, out, sent, cli>>

(***************************************************************************)
(* The connection handler: socket.on('data', ...).                         *)
(***************************************************************************)
\* A response line written, with the parsed value that caused it and
\* whether the listener had been closed when it was written (history).
Entry(resp, cause, lc) == [resp |-> resp, cause |-> cause, lc |-> lc]

\* The complete lines of buf + chunk, and what stays in buf (lines 273-275).
CompleteLines(b) == SubSeq(Split(b), 1, Len(Split(b)) - 1)
Remainder(b) == Split(b)[Len(Split(b))]

\* The lines that pass `if (!line.trim()) continue`, parsed.
Parsed(lines) ==
    LET nonblank == SelectSeq(lines, LAMBDA l : Trim(l) # <<>>)
    IN [i \in 1..Len(nonblank) |-> JsonParse(nonblank[i])]

Unparseable(parsed) == SelectSeq(parsed, LAMBDA p : p = SyntaxError)
Requests(parsed) == SelectSeq(parsed, LAMBDA p : p # SyntaxError)

\* The catch branch of the loop: one {id: '?', error: 'Invalid JSON'} each.
InvalidJsonWrites(parsed, lc) ==
    [i \in 1..Len(Unparseable(parsed)) |->
        Entry(Error("?", <<"Invalid JSON">>), SyntaxError, lc)]

\* The mutant of ThenWrites: while a handler is suspended on the Session,
\* the responses of the handlers that returned are held back.
ThenWritesSerial(reqs, lc) ==
    IF inflight # <<>> THEN <<>>
    ELSE [i \in 1..Len(SelectSeq(reqs, LAMBDA p : HandleRequest(p).k = "return")) |->
            Entry(HandleRequest(SelectSeq(reqs, LAMBDA p : HandleRequest(p).k = "return")[i]).resp,
                  SelectSeq(reqs, LAMBDA p : HandleRequest(p).k = "return")[i], lc)]

\* The requests whose handleRequest returned without suspending, and the
\* .then callback's write for each (lines 289-293).
Returned(reqs) == SelectSeq(reqs, LAMBDA p : HandleRequest(p).k = "return")
ThenWrites(reqs, lc) ==
    [i \in 1..Len(Returned(reqs)) |->
        Entry(HandleRequest(Returned(reqs)[i]).resp, Returned(reqs)[i], lc)]

\* The requests whose handleRequest threw, and the .catch callback's write
\* for each (lines 294-300).  The callback reads req.id: with req null it
\* throws itself, and nothing handles the rejection that results.
Thrown(reqs) == SelectSeq(reqs, LAMBDA p : HandleRequest(p).k = "throw")
Caught(reqs) == SelectSeq(Thrown(reqs), LAMBDA p : p.j # "null")
CatchWrites(reqs, lc) ==
    [i \in 1..Len(Caught(reqs)) |->
        Entry(Error(Fields(Caught(reqs)[i]).id, <<HandleRequest(Caught(reqs)[i]).err>>),
              Caught(reqs)[i], lc)]
UnhandledRejection(reqs) == \E i \in 1..Len(Thrown(reqs)) : Thrown(reqs)[i].j = "null"

\* The mutant of Suspended: the Session is locked while an operation of it
\* runs, and a request that meets the lock starts none.
SuspendedUnderLock(c, reqs) ==
    IF inflight # <<>> THEN <<>>
    ELSE [i \in 1..Len(SelectSeq(reqs, LAMBDA p : HandleRequest(p).k = "await")) |->
            [conn |-> c,
             req |-> SelectSeq(reqs, LAMBDA p : HandleRequest(p).k = "await")[i].r,
             lc |-> listener = "closed"]]

\* The handlers left suspended on a Session operation, each with whether
\* the listener had been closed when it was suspended (history).
Suspended(c, reqs) ==
    LET aw == SelectSeq(reqs, LAMBDA p : HandleRequest(p).k = "await")
    IN [i \in 1..Len(aw) |-> [conn |-> c, req |-> aw[i].r, lc |-> listener = "closed"]]

\* The stop requests among the returned ones, each with the place in
\* out[c] at which its response is written.
StopOrigins(c, reqs, base) ==
    LET ret == Returned(reqs)
        at == SelectSeq([i \in 1..Len(ret) |-> i], LAMBDA i : HandleRequest(ret[i]).stop)
    IN [i \in 1..Len(at) |-> [by |-> "stop", conn |-> c, pos |-> base + at[i]]]

\* The mutant of ScheduleStop: shutdown is called inline by the stop case.
ScheduleStopInline(origins) == [later |-> <<>>, now |-> origins]

\* case 'stop': setImmediate(() => void shutdown(...)) (lines 196-198).
ScheduleStop(origins) == [later |-> origins, now |-> <<>>]

\* The data event of connection c with the first n characters of the wire.
Deliver(c, n) ==
    /\ DaemonAlive
    /\ sock[c] = "open"
    /\ n \in 1..Len(wire[c])
    /\ LET b == buf[c] \o SubSeq(wire[c], 1, n)
           parsed == Parsed(CompleteLines(b))
           reqs == Requests(parsed)
           sch == ScheduleStop(StopOrigins(c, reqs,
                      Len(out[c]) + Len(Unparseable(parsed))))
           lc == listener = "closed" \/ sch.now # <<>>
       IN /\ wire' = [wire EXCEPT ![c] = SubSeq(@, n + 1, Len(@))]
          /\ buf' = [buf EXCEPT ![c] = Remainder(b)]
          /\ out' = [out EXCEPT ![c] = @ \o InvalidJsonWrites(parsed, lc)
                                         \o ThenWrites(reqs, lc)
                                         \o CatchWrites(reqs, lc)]
          /\ session' = [session EXCEPT
                            !.ops = @ + Len(Suspended(c, reqs)),
                            !.destroys = @ + Len(sch.now)]
          /\ IF UnhandledRejection(reqs)
                THEN Exit(1)
             ELSE /\ inflight' = inflight \o Suspended(c, reqs)
                  /\ immediates' = immediates \o sch.later
                  /\ shutdowns' = shutdowns \o
                        [i \in 1..Len(sch.now) |-> [origin |-> sch.now[i], at |-> "destroy"]]
                  /\ listener' = IF sch.now # <<>> THEN "closed" ELSE listener
                  /\ UNCHANGED <<pc, exitCode, sigHandlers>>
    /\ UNCHANGED <<boot, file, sock, sent, cli>>

\* A Session operation returns or throws: the suspended handler finishes
\* and the .then callback writes its response unless the socket is destroyed.
CompleteOp(i, outcome) ==
    /\ DaemonAlive
    /\ i \in 1..Len(inflight)
    /\ outcome \in OutcomesOf(inflight[i].req.method)
    /\ LET h == inflight[i] IN
       /\ out' = IF sock[h.conn] = "open"
                    THEN [out EXCEPT ![h.conn] =
                            Append(@, Entry(Resume(h.req, outcome),
                                            [j |-> "object", r |-> h.req],
                                            listener = "closed"))]
                 ELSE out
       /\ inflight' = SubSeq(inflight, 1, i - 1) \o SubSeq(inflight, i + 1, Len(inflight))
    /\ UNCHANGED <<pc, exitCode, boot, listener, sigHandlers, file, session,
                   immediates, shutdowns, sock, wire, buf, sent, cli>>

(***************************************************************************)
(* The clients of the daemon's port.                                       *)
(***************************************************************************)
RECURSIVE SumLen(_, _)
SumLen(f, S) ==
    IF S = {} THEN 0
    ELSE LET x == CHOOSE y \in S : TRUE IN Len(f[x]) + SumLen(f, S \ {x})
LinesSent == SumLen(sent, DOMAIN sent)

\* A client connects: the server's connection callback runs.
Accept(c) ==
    /\ DaemonAlive
    /\ listener = "listening"
    /\ sock[c] = "none"
    /\ sock' = [sock EXCEPT ![c] = "open"]
    /\ UNCHANGED <<pc, exitCode, boot, listener, sigHandlers, file, session,
                   immediates, shutdowns, wire, buf, out, sent, inflight, cli>>

\* A client writes one newline-terminated line.
ClientSend(c, line) ==
    /\ DaemonAlive
    /\ sock[c] = "open"
    /\ LinesSent < MaxLines
    /\ wire' = [wire EXCEPT ![c] = @ \o line \o <<NL>>]
    /\ sent' = [sent EXCEPT ![c] = Append(@, line)]
    /\ UNCHANGED <<pc, exitCode, boot, listener, sigHandlers, file, session,
                   immediates, shutdowns, sock, buf, out, inflight, cli>>

\* A client destroys its socket: what it wrote and was not read is lost.
ClientClose(c) ==
    /\ DaemonAlive
    /\ sock[c] = "open"
    /\ sock' = [sock EXCEPT ![c] = "destroyed"]
    /\ wire' = [wire EXCEPT ![c] = <<>>]
    /\ UNCHANGED <<pc, exitCode, boot, listener, sigHandlers, file, session,
                   immediates, shutdowns, buf, out, sent, inflight, cli>>

(***************************************************************************)
(* connectClient (utils/connect.ts) and tryConnectDaemon (utils/ipc.ts).   *)
(***************************************************************************)
Null == [kind |-> "null", port |-> "", token |-> Undefined]

\* readDaemonState: the parsed file, or null when reading or parsing throws.
ReadDaemonState(f) == IF f.kind = "descriptor" THEN f ELSE Null

\* The mutant of Settled: every matching response resolves the call.
SettledIgnoringError(resp) == "resolved"

\* callPort on the response whose id matches (lines 228-232).
Settled(resp) ==
    IF resp.has = "error" /\ resp.val # <<>> THEN "rejected" ELSE "resolved"

\* The response line the daemon writes for a request that returns or throws
\* without suspending (the .then and .catch callbacks).
Reply(pj) ==
    LET h == HandleRequest(pj) IN
    IF h.k = "return" THEN h.resp ELSE Error(Fields(pj).id, <<h.err>>)

\* The request of the liveness probe: callPort(state.port, state.token, 'ping').
ProbeRequest(state) == [j |-> "object", r |-> Req("probe", "ping", state.token)]

\* The daemon accepts connections on the port a descriptor names.
Listening(port) == DaemonAlive /\ listener = "listening" /\ port = DaemonPort

\* The errors callPort rejects with: the timer, the close of the socket
\* before a matching response, the error event of the socket (the error
\* of the socket as it is), and the error field of the response.
NoError == [kind |-> "none", text |-> <<>>]
TimeoutError(method) ==
    [kind |-> "Error", text |-> <<"IPC call \"", method, "\" timed out after ", "ms">>]
ClosedError(method) ==
    [kind |-> "Error", text |-> <<"Socket closed before response for \"", method, "\"">>]
SocketError == [kind |-> "SystemError", text |-> <<"connect ECONNREFUSED 127.0.0.1:", "port">>]
ResponseError(resp) == [kind |-> "Error", text |-> resp.val]

CallPortError(method, cause) ==
    CASE cause = "timeout" -> TimeoutError(method)
      [] cause = "closed" -> ClosedError(method)
      [] cause = "error" -> SocketError

\* A call of a method of the proxy: not made, pending on connection conn,
\* resolved or rejected; whether its timer is armed; whether the close
\* event of its socket is due or was emitted; how often it settled.
NoCall ==
    [method |-> "none", conn |-> 0, at |-> "none", cause |-> "none", err |-> NoError,
     timer |-> FALSE, close |-> "no", settles |-> 0]

CliIdle ==
    [pc |-> "idle", state |-> Null, probe |-> "none", reply |-> NoResp,
     handle |-> "none", port |-> "", token |-> Undefined, sessions |-> 0,
     finally |-> FALSE, destroyed |-> 0, call |-> NoCall]

\* connectClient calls tryConnectDaemon, which reads the descriptor; with
\* none it returns null and connectClient constructs its own Session.
ConnectStart ==
    /\ cli.pc = "idle"
    /\ LET state == ReadDaemonState(file) IN
       IF state = Null
          THEN /\ cli' = [cli EXCEPT !.pc = "bootWait", !.sessions = @ + 1]
               /\ boot' = [boot EXCEPT !["connect"] = BootStarted]
       ELSE /\ cli' = [cli EXCEPT !.pc = "probe", !.state = state]
            /\ UNCHANGED boot
    /\ UNCHANGED <<daemonVars, connVars, file>>

\* tryConnectDaemon after callPort settled: an IpcClient bound to the
\* descriptor's port and token, or null and the slow path.
AfterProbe(outcome, reply) ==
    /\ IF outcome = "resolved"
          THEN /\ cli' = [cli EXCEPT !.pc = "returned", !.probe = outcome,
                                     !.reply = reply, !.handle = "ipc",
                                     !.port = cli.state.port,
                                     !.token = cli.state.token]
               /\ UNCHANGED boot
       ELSE /\ cli' = [cli EXCEPT !.pc = "bootWait", !.probe = outcome,
                                  !.reply = reply, !.sessions = @ + 1]
            /\ boot' = [boot EXCEPT !["connect"] = BootStarted]
    /\ UNCHANGED <<daemonVars, connVars, file>>

\* The daemon answers the probe within the timeout.
ProbeAnswered ==
    /\ cli.pc = "probe"
    /\ Listening(cli.state.port)
    /\ LET reply == Reply(ProbeRequest(cli.state)) IN AfterProbe(Settled(reply), reply)

\* The connection is refused: nothing listens on the descriptor's port.
ProbeRefused ==
    /\ cli.pc = "probe"
    /\ ~Listening(cli.state.port)
    /\ AfterProbe("rejected: error", NoResp)

\* No reply within 1500 ms, or the socket closes before one.
ProbeTimeout ==
    /\ cli.pc = "probe"
    /\ \E why \in {"rejected: timed out", "rejected: closed"} : AfterProbe(why, NoResp)

\* connectClient after `await new Promise(...)` of its boot wait: it
\* returns the Session, or the rejection propagates to the caller.
ConnectBoot(nb) ==
    /\ cli.pc \in {"bootWait", "returned", "thrown"}
    /\ boot' = [boot EXCEPT !["connect"] = nb]
    /\ IF boot["connect"].promise = "pending" /\ nb.promise = "resolved"
          THEN cli' = [cli EXCEPT !.pc = "returned", !.handle = "session"]
       ELSE IF boot["connect"].promise = "pending" /\ nb.promise # "pending"
          THEN cli' = [cli EXCEPT !.pc = "thrown"]
       ELSE UNCHANGED cli
    /\ UNCHANGED <<daemonVars, connVars, file>>

\* The command that called connectClient ends: its finally block calls
\* client?.destroy() on the handle connectClient returned, if it returned
\* one (send.tsx 110-112); IpcClient.destroy does nothing.
CommandFinally ==
    /\ cli.pc \in {"returned", "thrown"}
    /\ ~cli.finally
    /\ cli' = [cli EXCEPT !.finally = TRUE,
                          !.destroyed = IF cli.pc = "returned" /\ cli.handle = "session"
                                           THEN @ + 1 ELSE @]
    /\ UNCHANGED <<daemonVars, connVars, file, boot>>

ConnectQr == boot["connect"].qr /\ ConnectBoot(OnQr(boot["connect"]))
ConnectReady == boot["connect"].ready /\ ConnectBoot(OnReady(boot["connect"]))
ConnectError == boot["connect"].error /\ ConnectBoot(OnError(boot["connect"]))
ConnectInitRejected ==
    boot["connect"].init /\ ConnectBoot(OnInitRejected(boot["connect"]))
ConnectInitResolved ==
    boot["connect"].init /\ ConnectBoot([boot["connect"] EXCEPT !.init = FALSE])
ConnectTimeout == boot["connect"].timer /\ ConnectBoot(OnTimeout(boot["connect"]))

(***************************************************************************)
(* IpcClient: a method of the proxy is one callPort on its own connection. *)
(***************************************************************************)
\* The id callPort gives its request.
CallId == "call"

\* callPort(this.port, this.token, method, ...): net.createConnection and
\* setTimeout; on connect the request line is written, otherwise the error
\* event of the socket calls finish, which rejects with the socket's error.
ProxyCall(c, method) ==
    /\ cli.handle = "ipc"
    /\ cli.call.at = "none"
    /\ sock[c] = "none"
    /\ IF Listening(cli.port)
          THEN /\ sock' = [sock EXCEPT ![c] = "open"]
               /\ wire' = [wire EXCEPT ![c] =
                             RequestLine(Req(CallId, method, cli.token)) \o <<NL>>]
               /\ sent' = [sent EXCEPT ![c] =
                             Append(@, RequestLine(Req(CallId, method, cli.token)))]
               /\ cli' = [cli EXCEPT !.call = [NoCall EXCEPT !.method = method,
                                                             !.conn = c,
                                                             !.at = "pending",
                                                             !.timer = TRUE]]
       ELSE /\ cli' = [cli EXCEPT !.call = [NoCall EXCEPT !.method = method,
                                                          !.conn = c,
                                                          !.at = "rejected",
                                                          !.cause = "error",
                                                          !.err = CallPortError(method, "error"),
                                                          !.close = "due",
                                                          !.settles = 1]]
            /\ UNCHANGED <<sock, wire, sent>>
    /\ UNCHANGED <<daemonVars, boot, file, buf, out, inflight>>

\* The call record after finish(fn) ran for an event: if the call had
\* settled nothing but the close event is recorded; otherwise the call
\* settles, the timer is cleared, and the destroyed socket will emit close.
Finished(call, cause, err) ==
    IF call.at # "pending"
        THEN [call EXCEPT !.close = IF cause = "closed" THEN "emitted" ELSE @]
    ELSE [call EXCEPT !.at = IF cause = "result" THEN "resolved" ELSE "rejected",
                      !.cause = cause, !.err = err, !.timer = FALSE,
                      !.close = IF cause = "closed" THEN "emitted" ELSE "due",
                      !.settles = @ + 1]

\* The mutant of Finish: finish does not look at `settled`.
FinishUnguarded(cause, err) ==
    /\ cli' = [cli EXCEPT !.call =
                 [@ EXCEPT !.at = IF cause = "result" THEN "resolved" ELSE "rejected",
                           !.cause = cause, !.err = err, !.timer = FALSE,
                           !.close = IF cause = "closed" THEN "emitted" ELSE "due",
                           !.settles = @ + 1]]
    /\ sock' = [sock EXCEPT ![cli.call.conn] = IF @ = "none" THEN @ ELSE "destroyed"]
    /\ wire' = [wire EXCEPT ![cli.call.conn] = <<>>]
    /\ UNCHANGED <<daemonVars, boot, file, buf, out, sent, inflight>>

\* The mutant of Finish: the handlers of the connection are cancelled with it.
FinishCancelling(cause, err) ==
    /\ cli' = [cli EXCEPT !.call = Finished(@, cause, err)]
    /\ sock' = [sock EXCEPT ![cli.call.conn] = IF @ = "none" THEN @ ELSE "destroyed"]
    /\ wire' = [wire EXCEPT ![cli.call.conn] = <<>>]
    /\ inflight' = SelectSeq(inflight, LAMBDA h : h.conn # cli.call.conn)
    /\ UNCHANGED <<daemonVars, boot, file, buf, out, sent>>

\* finish(fn) (lines 201-207): unless the call has settled, it settles, the
\* timer is cleared and the socket destroyed.
Finish(cause, err) ==
    /\ cli' = [cli EXCEPT !.call = Finished(@, cause, err)]
    /\ sock' = [sock EXCEPT ![cli.call.conn] = IF @ = "none" THEN @ ELSE "destroyed"]
    /\ wire' = [wire EXCEPT ![cli.call.conn] = <<>>]
    /\ UNCHANGED <<daemonVars, boot, file, buf, out, sent, inflight>>

\* The data handler of callPort (lines 220-236): of the lines received, the
\* first that parses and has the id of the call settles it; a line that
\* does not parse and a line with another id are passed over.
ProxyReply ==
    /\ cli.call.at = "pending"
    /\ sock[cli.call.conn] = "open"
    /\ \E i \in 1..Len(out[cli.call.conn]) :
          LET resp == out[cli.call.conn][i].resp IN
          /\ resp.has # "none" /\ resp.id = CallId
          /\ \A j \in 1..(i - 1) :
                \/ out[cli.call.conn][j].resp.has = "none"
                \/ out[cli.call.conn][j].resp.id # CallId
          /\ IF Settled(resp) = "resolved" THEN Finish("result", NoError)
             ELSE Finish("response", ResponseError(resp))

\* The timer of callPort fires: it is armed until finish clears it.
ProxyTimeout ==
    /\ cli.call.timer
    /\ Finish("timeout", CallPortError(cli.call.method, "timeout"))

\* The close event of the socket: the daemon process ended before a
\* matching response, or the socket was destroyed by finish.
ProxyClosed ==
    /\ \/ cli.call.close = "due"
       \/ /\ cli.call.at = "pending"
          /\ pc = "exited"
          /\ \A i \in 1..Len(out[cli.call.conn]) : out[cli.call.conn][i].resp.id # CallId
    /\ Finish("closed", CallPortError(cli.call.method, "closed"))

\* The lines a peer can write that answer no request of the call: a
\* response with another id, and a line that is no JSON.
StrayLines == {Error("?", <<"Invalid JSON">>), Result("other", <<"pong">>), NoResp}

\* What listens on the port of the descriptor writes a stray line to the
\* socket of the call.
ProxyStray(c, resp) ==
    /\ sock[c] = "open"
    /\ cli.call.at = "pending" /\ cli.call.conn = c
    /\ Len(SelectSeq(out[c], LAMBDA e : e.cause.j = "stray")) < MaxStray
    /\ out' = [out EXCEPT ![c] = Append(@, Entry(resp, [j |-> "stray", r |-> NoReq],
                                                  listener = "closed"))]
    /\ UNCHANGED <<daemonVars, boot, file, sock, wire, buf, sent, inflight, cli>>

(***************************************************************************)
(* The descriptor file as text: writeDaemonState (daemon/state.ts) and     *)
(* readDaemonState (utils/ipc.ts), with JSON.stringify and JSON.parse of   *)
(* a DaemonState.  A text is a sequence of characters; the quoted key of   *)
(* a member with its colon counts as one character.                        *)
(***************************************************************************)
DigitChars == <<"0", "1", "2", "3", "4", "5", "6", "7", "8", "9">>
IsDigit(ch) == \E k \in 1..Len(DigitChars) : DigitChars[k] = ch
DigitValue(ch) == (CHOOSE k \in 1..Len(DigitChars) : DigitChars[k] = ch) - 1

QUOTE == "\""
BACKSLASH == "\\"

\* The characters of the strings of a descriptor: a plain one and the two
\* that JSON escapes.
StringChars == {"a", QUOTE, BACKSLASH}
Strings(n) == UNION {[1..k -> StringChars] : k \in 0..n}

\* The DaemonState values written: {pid, port, startedAt, token}.
DaemonStates ==
    [pid : {7, 10}, port : {50505},
     startedAt : Strings(1), token : Strings(MaxStringLen) \ {<<>>}]

\* JSON.stringify of a non-negative integer: its decimal digits.
RECURSIVE Digits(_)
Digits(n) ==
    IF n < 10 THEN <<DigitChars[n + 1]>>
    ELSE Digits(n \div 10) \o <<DigitChars[(n % 10) + 1]>>

\* The mutant of Escape: the backslash is written as it is.
RECURSIVE EscapeQuoteOnly(_)
EscapeQuoteOnly(s) ==
    IF s = <<>> THEN <<>>
    ELSE (IF Head(s) = QUOTE THEN <<BACKSLASH, Head(s)>> ELSE <<Head(s)>>)
         \o EscapeQuoteOnly(Tail(s))

\* JSON.stringify of the characters of a string: quote and backslash are
\* preceded by a backslash.
RECURSIVE Escape(_)
Escape(s) ==
    IF s = <<>> THEN <<>>
    ELSE (IF Head(s) \in {QUOTE, BACKSLASH} THEN <<BACKSLASH, Head(s)>> ELSE <<Head(s)>>)
         \o Escape(Tail(s))

Quoted(s) == <<QUOTE>> \o Escape(s) \o <<QUOTE>>

\* JSON.stringify(state), members in the order of the object literal.
Stringify(d) ==
    <<"{", "\"pid\":">> \o Digits(d.pid)
    \o <<",", "\"port\":">> \o Digits(d.port)
    \o <<",", "\"startedAt\":">> \o Quoted(d.startedAt)
    \o <<",", "\"token\":">> \o Quoted(d.token)
    \o <<"}">>

\* A step of the parser: failed, or a value and the text that follows it.
Failed == [ok |-> FALSE, val |-> <<>>, rest |-> <<>>]
Parsed1(val, rest) == [ok |-> TRUE, val |-> val, rest |-> rest]

\* One expected character.
Expect(t, ch) ==
    IF t # <<>> /\ Head(t) = ch THEN Parsed1(ch, Tail(t)) ELSE Failed

\* A JSON number without sign, fraction or exponent; no leading zero.
RECURSIVE ParseDigits(_, _)
ParseDigits(t, acc) ==
    IF t # <<>> /\ IsDigit(Head(t))
        THEN ParseDigits(Tail(t), 10 * acc + DigitValue(Head(t)))
    ELSE Parsed1(acc, t)
ParseNumber(t) ==
    IF t = <<>> \/ ~IsDigit(Head(t)) THEN Failed
    ELSE IF Head(t) = "0" /\ Len(t) > 1 /\ IsDigit(t[2]) THEN Failed
    ELSE ParseDigits(t, 0)

\* A JSON string: up to the closing quote, a backslash taking the
\* character that follows it.
RECURSIVE ParseChars(_, _)
ParseChars(t, acc) ==
    IF t = <<>> THEN Failed
    ELSE IF Head(t) = QUOTE THEN Parsed1(acc, Tail(t))
    ELSE IF Head(t) = BACKSLASH
        THEN IF Len(t) > 1 /\ t[2] \in {QUOTE, BACKSLASH}
                THEN ParseChars(Tail(Tail(t)), Append(acc, t[2]))
             ELSE Failed
    ELSE ParseChars(Tail(t), Append(acc, Head(t)))
ParseString(t) ==
    IF t # <<>> /\ Head(t) = QUOTE THEN ParseChars(Tail(t), <<>>) ELSE Failed

\* The member `key value` that starts at t, after the character `open`.
Member(t, open, key, kind) ==
    LET o == Expect(t, open)
        k == IF o.ok THEN Expect(o.rest, key) ELSE Failed
    IN IF ~k.ok THEN Failed
       ELSE IF kind = "number" THEN ParseNumber(k.rest) ELSE ParseString(k.rest)

\* JSON.parse(raw) of a text that is a DaemonState as JSON.stringify writes
\* it, of the texts {} and [] and of a number; any other text of the model
\* throws a SyntaxError.  A result holds whether the call threw and, in
\* val, the value returned if there is one: a record of the members of a
\* DaemonState, or a record that tells which other JSON value it is.
JsonParseState(text) ==
    LET a == Member(text, "{", "\"pid\":", "number")
        b == IF a.ok THEN Member(a.rest, ",", "\"port\":", "number") ELSE Failed
        c == IF b.ok THEN Member(b.rest, ",", "\"startedAt\":", "string") ELSE Failed
        e == IF c.ok THEN Member(c.rest, ",", "\"token\":", "string") ELSE Failed
        z == IF e.ok THEN Expect(e.rest, "}") ELSE Failed
        n == ParseNumber(text)
    IN IF z.ok /\ z.rest = <<>>
          THEN [threw |-> FALSE,
                val |-> <<[pid |-> a.val, port |-> b.val, startedAt |-> c.val, token |-> e.val]>>]
       ELSE IF text = <<"{", "}">> THEN [threw |-> FALSE, val |-> <<[json |-> "object"]>>]
       ELSE IF text = <<"[", "]">> THEN [threw |-> FALSE, val |-> <<[json |-> "array"]>>]
       ELSE IF n.ok /\ n.rest = <<>>
          THEN [threw |-> FALSE, val |-> <<[json |-> "number", n |-> n.val]>>]
       ELSE [threw |-> TRUE, val |-> <<>>]

\* Permission bits: owner, group and others, read and write.
OwnerOnly == {"ur", "uw"}
ModeBits == {"ur", "uw", "gr", "gw", "or", "ow"}
\* The file-creation masks of the process: 000, 022 and 077.
Umasks == {{}, {"gw", "ow"}, {"gr", "gw", "or", "ow"}}

NoFile == [kind |-> "absent", text |-> <<>>, mode |-> {}]
File(text, mode) == [kind |-> "file", text |-> text, mode |-> mode]

\* fs.readFile(DAEMON_STATE_FILE, 'utf8'): the text, or ENOENT thrown.
ReadFile(f) ==
    IF f.kind = "absent" THEN [threw |-> TRUE, val |-> <<>>]
    ELSE [threw |-> FALSE, val |-> f.text]

\* The mutant of ReadState: only ENOENT is caught.
ReadStateCatchingEnoent(f) ==
    LET raw == ReadFile(f) IN
    IF raw.threw THEN [threw |-> FALSE, val |-> <<>>] ELSE JsonParseState(raw.val)

\* readDaemonState: try { readFile; JSON.parse } catch { return null };
\* null is a result with no value.
ReadState(f) ==
    LET raw == ReadFile(f)
        v == IF raw.threw THEN raw ELSE JsonParseState(raw.val)
    IN IF v.threw THEN [threw |-> FALSE, val |-> <<>>] ELSE v

\* tryConnectDaemon on what readDaemonState returned: with a falsy value
\* (null, the number 0) it returns null and makes no probe; otherwise it
\* calls callPort(state.port, state.token, 'ping'), and a member that the
\* value does not have is undefined (<<>>).
ProbeOf(got) ==
    IF got.val = <<>> \/ got.val[1] = [json |-> "number", n |-> 0] THEN <<>>
    ELSE <<[port |-> IF "port" \in DOMAIN got.val[1] THEN <<got.val[1].port>> ELSE <<>>,
            token |-> IF "token" \in DOMAIN got.val[1] THEN <<got.val[1].token>> ELSE <<>>]>>

\* open(path, O_WRONLY | O_CREAT | O_TRUNC, mode): an existing file is
\* emptied and keeps its mode; a new one gets mode & ~umask.
OpenForWrite(f, mode, umask) ==
    IF f.kind = "absent" THEN File(<<>>, mode \ umask) ELSE File(<<>>, f.mode)

\* A process that calls writeDaemonState, and the last readDaemonState of
\* another process.
StoreIdle ==
    [pc |-> "idle", d |-> "none", read |-> <<>>, before |-> [kind |-> "absent", mode |-> {}]]

\* Every action of the descriptor file leaves the daemon model alone.
StoreFrame ==
    UNCHANGED <<pc, exitCode, boot, listener, sigHandlers, session, immediates,
                shutdowns, sock, wire, buf, out, sent, inflight>>

\* writeDaemonState(d): mkdir, then fs.writeFile opens the file.
StoreOpen(d, umask) ==
    /\ cli.pc = "idle"
    /\ file' = OpenForWrite(file, OwnerOnly, umask)
    /\ cli' = [pc |-> "writing", d |-> d, read |-> <<>>,
               before |-> [kind |-> file.kind, mode |-> file.mode]]
    /\ StoreFrame

\* fs.writeFile writes the next character of the text, or all the rest.
StoreWrite(all) ==
    /\ cli.pc = "writing"
    /\ LET text == Stringify(cli.d)
           n == Len(file.text)
           k == IF all THEN Len(text) - n ELSE 1
       IN /\ file' = [file EXCEPT !.text = SubSeq(text, 1, n + k)]
          /\ cli' = [cli EXCEPT !.read = <<>>,
                                !.pc = IF n + k = Len(text) THEN "written" ELSE "writing"]
    /\ StoreFrame

\* readDaemonState of another process.
StoreRead ==
    /\ cli.read = <<>>
    /\ cli' = [cli EXCEPT !.read = <<[of |-> file, got |-> ReadState(file)]>>]
    /\ UNCHANGED file
    /\ StoreFrame

\* removeDaemonState: fs.unlink, errors ignored.
StoreRemove ==
    /\ cli.pc = "written"
    /\ file' = NoFile
    /\ cli' = [cli EXCEPT !.pc = "removed", !.read = <<>>]
    /\ StoreFrame

(***************************************************************************)
(* The operator commands: daemon start, daemon status (commands/daemon/    *)
(* status.tsx, start.tsx) and daemon stop (commands/daemon/stop.tsx).      *)
(* One daemon process is followed: a process that daemon start spawns      *)
(* while that one exists is not.                                           *)
(***************************************************************************)
\* useState({phase: 'checking'}) of a command, with what the model records
\* of its run: the descriptor read first (s), the descriptor the proxy of
\* the last successful probe is bound to (ipc), the descriptor reported,
\* and the process.exitCode (-1 while not set).
OpIdle(cmd) ==
    [cmd |-> cmd, pc |-> "checking", phase |-> "checking", message |-> "",
     s |-> Null, ipc |-> Null, report |-> Null, running |-> FALSE,
     spawned |-> FALSE, child |-> FALSE, promise |-> "none",
     ticks |-> 0, probes |-> 0, polls |-> 0, exitCode |-> -1]

\* setState({phase: 'done', ...}) and the catch block's setState({phase: 'error'}).
Done(c, message) == [c EXCEPT !.pc = "end", !.phase = "done", !.message = message]
Failure(c, message) == [c EXCEPT !.pc = "end", !.phase = "error", !.message = message]

\* The results tryConnectDaemon can return now: null with no descriptor,
\* with a refused connection, an error response or no response in 1500 ms;
\* an IpcClient, shown as the descriptor it is bound to, when the ping is
\* answered with a result.
tryConnectDaemon ==
    LET state == ReadDaemonState(file) IN
    IF state # Null /\ Listening(state.port)
                    /\ Settled(Reply(ProbeRequest(state))) = "resolved"
        THEN {state, Null}
    ELSE {Null}

\* The setState of a command that reads s.port and s.pid of the descriptor
\* just read: with s null the read throws a TypeError, which the catch block
\* turns into the error phase.
ReportRunning(c, s) ==
    IF s = Null THEN Failure(c, "TypeError")
    ELSE [Done(c, "running") EXCEPT !.report = s, !.running = TRUE]

OpFrame == UNCHANGED <<daemonVars, connVars, boot, file>>

\* daemon start: const existing = await tryConnectDaemon().
StartProbe(ipc) ==
    /\ cli.cmd = "start" /\ cli.pc = "checking"
    /\ ipc \in tryConnectDaemon
    /\ cli' = [cli EXCEPT !.ipc = ipc,
                          !.pc = IF ipc # Null THEN "existing" ELSE "spawn",
                          !.phase = IF ipc # Null THEN "checking" ELSE "spawning"]
    /\ OpFrame

\* daemon start, a daemon answered: const s = await readDaemonState() and
\* the report of s.port and s.pid (lines 122-128).
StartExisting ==
    /\ cli.cmd = "start" /\ cli.pc = "existing"
    /\ cli' = ReportRunning(cli, ReadDaemonState(file))
    /\ OpFrame

\* daemon start: spawn(process.execPath, [serverPath], {detached: true}).
\* The main module of the daemon constructs its Session and starts its
\* boot wait.
StartSpawn ==
    /\ cli.cmd = "start" /\ cli.pc = "spawn"
    /\ cli' = [cli EXCEPT !.pc = "waiting", !.phase = "waiting", !.spawned = TRUE,
                          !.child = (pc = "none"), !.promise = "pending"]
    /\ IF pc = "none"
          THEN /\ pc' = "boot"
               /\ boot' = [boot EXCEPT !["daemon"] = BootStarted]
       ELSE UNCHANGED <<pc, boot>>
    /\ UNCHANGED <<exitCode, listener, sigHandlers, session, immediates, shutdowns,
                   connVars, file>>

\* The mutant of StartTick: the callback does not look at the time.
StartTickWithoutBudget ==
    /\ cli.cmd = "start" /\ cli.pc = "waiting"
    /\ cli' = [cli EXCEPT !.probes = IF @ < PollTicks THEN @ + 1 ELSE @]
    /\ OpFrame

\* The setInterval callback of daemon start up to its await: past the
\* budget it clears the interval and rejects, and the catch block sets the
\* error phase; within it, it calls tryConnectDaemon.
StartTick ==
    /\ cli.cmd = "start" /\ cli.pc = "waiting"
    /\ cli' = IF cli.ticks >= PollTicks
                 THEN [Failure(cli, "Daemon did not become ready within 95 s")
                         EXCEPT !.promise = Settle(@, "rejected")]
              ELSE [cli EXCEPT !.ticks = @ + 1, !.probes = @ + 1]
    /\ OpFrame

\* The setInterval callback after its await: with an IpcClient it clears
\* the interval and resolves, and daemon start goes on to readDaemonState.
StartProbed(ipc) ==
    /\ cli.cmd = "start" /\ cli.probes > 0
    /\ ipc \in tryConnectDaemon
    /\ cli' = IF ipc # Null /\ cli.promise = "pending"
                 THEN [cli EXCEPT !.probes = @ - 1, !.ipc = ipc, !.pc = "final",
                                  !.promise = Settle(@, "resolved")]
              ELSE [cli EXCEPT !.probes = @ - 1]
    /\ OpFrame

\* daemon start after the poll: const s = await readDaemonState() and the
\* report of s.port and s.pid (lines 172-173).
StartFinal ==
    /\ cli.cmd = "start" /\ cli.pc = "final"
    /\ cli' = ReportRunning(cli, ReadDaemonState(file))
    /\ OpFrame

\* daemon status and daemon stop: const s = await readDaemonState().
OpRead ==
    /\ cli.cmd \in {"status", "stop"} /\ cli.pc = "checking"
    /\ LET s == ReadDaemonState(file) IN
       cli' = IF s = Null
                 THEN Done(cli, "not running")
              ELSE [cli EXCEPT !.pc = "probe", !.s = s]
    /\ OpFrame

\* The mutant of StatusProbe: daemon status removes the descriptor that no
\* daemon answered for.
StatusProbeCleaning(ipc) ==
    /\ cli.cmd = "status" /\ cli.pc = "probe"
    /\ ipc \in tryConnectDaemon
    /\ cli' = IF ipc # Null
                 THEN [Done(cli, "running") EXCEPT !.ipc = ipc, !.report = cli.s,
                                                   !.running = TRUE]
              ELSE Done(cli, "not running")
    /\ file' = IF ipc # Null THEN file ELSE Absent
    /\ UNCHANGED <<daemonVars, connVars, boot>>

\* daemon status: const ipc = await tryConnectDaemon() and the report of
\* the descriptor read first.
StatusProbe(ipc) ==
    /\ cli.cmd = "status" /\ cli.pc = "probe"
    /\ ipc \in tryConnectDaemon
    /\ cli' = IF ipc # Null
                 THEN [Done(cli, "running") EXCEPT !.ipc = ipc, !.report = cli.s,
                                                   !.running = TRUE]
              ELSE Done(cli, "not running")
    /\ OpFrame

\* daemon stop: const ipc = await tryConnectDaemon().
StopProbe(ipc) ==
    /\ cli.cmd = "stop" /\ cli.pc = "probe"
    /\ ipc \in tryConnectDaemon
    /\ cli' = [cli EXCEPT !.ipc = ipc,
                          !.pc = IF ipc # Null THEN "sendStop" ELSE "unlink",
                          !.phase = IF ipc # Null THEN "stopping" ELSE "checking"]
    /\ OpFrame

\* daemon stop, no daemon answered: await fs.unlink(DAEMON_STATE_FILE).
StopUnlink ==
    /\ cli.cmd = "stop" /\ cli.pc = "unlink"
    /\ file' = Absent
    /\ cli' = Done(cli, "cleaned up stale state file")
    /\ UNCHANGED <<daemonVars, connVars, boot>>

\* sendStop(s.port, s.token): on connect the stop request is written and a
\* 300 ms timer armed; on error the promise resolves.
StopConnect(c) ==
    /\ cli.cmd = "stop" /\ cli.pc = "sendStop"
    /\ sock[c] = "none"
    /\ IF Listening(cli.s.port)
          THEN /\ sock' = [sock EXCEPT ![c] = "open"]
               /\ wire' = [wire EXCEPT ![c] =
                             RequestLine(Req("stop-req", "stop", cli.s.token)) \o <<NL>>]
               /\ sent' = [sent EXCEPT ![c] =
                             Append(@, RequestLine(Req("stop-req", "stop", cli.s.token)))]
               /\ cli' = [cli EXCEPT !.pc = "stopSent"]
       ELSE /\ cli' = [cli EXCEPT !.pc = "gone?"]
            /\ UNCHANGED <<sock, wire, sent>>
    /\ UNCHANGED <<daemonVars, boot, file, buf, out, inflight>>

\* The 300 ms timer of sendStop: socket.destroy() and resolve().
StopTimer(c) ==
    /\ cli.cmd = "stop" /\ cli.pc = "stopSent"
    /\ sock[c] # "none"
    /\ sock' = [sock EXCEPT ![c] = "destroyed"]
    /\ wire' = [wire EXCEPT ![c] = <<>>]
    /\ cli' = [cli EXCEPT !.pc = "gone?"]
    /\ UNCHANGED <<daemonVars, boot, file, buf, out, sent, inflight>>

\* One turn of the loop of daemon stop: after 400 ms fs.access of the file;
\* the loop ends when the file is gone or the 8 s are over, and the done
\* phase is set.
StopPoll ==
    /\ cli.cmd = "stop" /\ cli.pc = "gone?"
    /\ cli' = IF file.kind = "absent" \/ cli.polls + 1 >= StopPolls
                 THEN [Done(cli, "stopped") EXCEPT !.polls = @ + 1]
              ELSE [cli EXCEPT !.polls = @ + 1]
    /\ OpFrame

\* The mutant of ExitEffect: only a report of a running or stopped daemon
\* counts as success.
ExitEffectByMessage ==
    /\ cli.exitCode = -1
    /\ IF cli.cmd = "status" THEN cli.phase # "checking" ELSE cli.phase \in {"done", "error"}
    /\ cli' = [cli EXCEPT !.exitCode = IF cli.message \in {"running", "stopped"} THEN 0 ELSE 1]
    /\ OpFrame

\* The effect on the state of a command: once the phase is done or error
\* (for daemon status: is not checking), process.exitCode is set and the
\* application exits.
ExitEffect ==
    /\ cli.exitCode = -1
    /\ IF cli.cmd = "status" THEN cli.phase # "checking" ELSE cli.phase \in {"done", "error"}
    /\ cli' = [cli EXCEPT !.exitCode = IF cli.phase = "error" THEN 1 ELSE 0]
    /\ OpFrame

(***************************************************************************)
(* reviveDates (utils/ipc.ts): the result of a response, as JSON.parse     *)
(* returns it, with its date-time strings turned into Date values.  A      *)
(* string is the sequence of its characters, an object the sequence of     *)
(* its own properties in the order of their creation.                      *)
(***************************************************************************)
JsonNull == [type |-> "null", v |-> <<>>]
Obj(props) == [type |-> "object", v |-> props]
Date(s) == [type |-> "date", v |-> s]

\* ISO_RE.test(value): /^\d{4}-\d{2}-\d{2}T\d{2}:\d{2}:\d{2}/, not anchored
\* at the end.
ISO_RE(s) ==
    /\ Len(s) >= 19
    /\ \A i \in 1..19 :
          CASE i \in {5, 8} -> s[i] = "-"
            [] i = 11 -> s[i] = "T"
            [] i \in {14, 17} -> s[i] = ":"
            [] OTHER -> IsDigit(s[i])

\* !Number.isNaN(new Date(value).getTime()) for a string that ISO_RE
\* matches and that ends there or with Z: the fields are in their ranges.
\* Any other text after the seconds makes the date invalid.
ValidDate(s) ==
    LET two(i) == 10 * DigitValue(s[i]) + DigitValue(s[i + 1]) IN
    /\ SubSeq(s, 20, Len(s)) \in {<<>>, <<"Z">>}
    /\ two(6) \in 1..12 /\ two(9) \in 1..28
    /\ two(12) <= 23 /\ two(15) <= 59 /\ two(18) <= 59

\* out[k] = v on the object literal {}: an own property is created, except
\* for the key __proto__, for which the setter inherited from
\* Object.prototype runs and no own property is created.
AssignProperty(props, k, v) ==
    IF k = "__proto__" THEN props ELSE Append(props, [k |-> k, v |-> v])

RECURSIVE reviveDates(_)
RECURSIVE ReviveEntries(_, _)
\* for (const [k, v] of Object.entries(value)) out[k] = reviveDates(v).
ReviveEntries(props, entries) ==
    IF entries = <<>> THEN props
    ELSE ReviveEntries(AssignProperty(props, Head(entries).k, reviveDates(Head(entries).v)),
                       Tail(entries))

reviveDates(value) ==
    IF value.type = "string" /\ ISO_RE(value.v)
        THEN IF ValidDate(value.v) THEN Date(value.v) ELSE value
    ELSE IF value.type = "array"
        THEN Arr([i \in 1..Len(value.v) |-> reviveDates(value.v[i])])
    ELSE IF value.type = "object"
        THEN Obj(ReviveEntries(<<>>, value.v))
    ELSE value

\* The strings of the results: a date-time, the same with Z, a text that
\* matches the pattern with month 13, a date-time followed by more text, a
\* date without time, and a text that is no date.
IsoText ==
    <<"2", "0", "2", "4", "-", "0", "1", "-", "0", "1", "T",
      "1", "0", ":", "0", "0", ":", "0", "0">>
JsonScalars ==
    { Str(IsoText), Str(IsoText \o <<"Z">>), Str([IsoText EXCEPT ![6] = "1", ![7] = "3"]),
      Str(IsoText \o <<"x">>), Str(SubSeq(IsoText, 1, 10)), Str(<<"h", "i">>),
      Num, JsonNull }

\* The arrays of at most n elements of V, and the objects with at most
\* the keys a and __proto__, in this order, and values of V.
ArraysOf(V, n) == {Arr(s) : s \in UNION {[1..k -> V] : k \in 0..n}}
ObjectsOf(V, keys) ==
    {Obj(<<>>)} \cup {Obj(<<[k |-> k, v |-> v]>>) : k \in keys, v \in V}
    \cup (IF keys = {"a", "__proto__"}
             THEN {Obj(<<[k |-> "a", v |-> v], [k |-> "__proto__", v |-> w]>>) : v, w \in V}
          ELSE {})

\* JSON values of depth at most MaxDepth.
RECURSIVE JsonValues(_)
JsonValues(depth) ==
    IF depth = 0 THEN JsonScalars
    ELSE LET V == JsonValues(depth - 1) IN
         V \cup ArraysOf(V, IF depth = 1 THEN 2 ELSE 1)
           \cup ObjectsOf(V, IF depth = 1 THEN {"a", "__proto__"} ELSE {"a"})

\* callPort resolves with reviveDates(resp.result).
Revive ==
    /\ cli.pc = "call"
    /\ cli' = [cli EXCEPT !.pc = "returned", !.result = reviveDates(cli.value)]
    /\ OpFrame

(***************************************************************************)
(* Two invocations of daemon start and the daemons they spawn.  The        *)
(* second daemon runs the same main module; of it, the model keeps where   *)
(* its main module stands: none, boot, writeState, writing, serving,       *)
(* unlink, exited.                                                         *)
(***************************************************************************)
\* The port and the secret of the second daemon, and its descriptor.
OtherPort == "other port"
OtherState == Descriptor(OtherPort, Str(Append(SECRET_TOKEN.v, TokenLen + 2)))

RaceIdle == [start |-> [k \in 1..2 |-> "checking"], other |-> "none"]

\* The results tryConnectDaemon can return with two daemons: the second
\* daemon answers the ping on its port while its listener is bound.
tryConnectEither ==
    tryConnectDaemon
    \cup (IF ReadDaemonState(file) = OtherState
               /\ cli.other \in {"writeState", "writing", "serving"}
             THEN {OtherState} ELSE {})

RaceFrame == UNCHANGED <<daemonVars, connVars, boot, file>>

\* daemon start k: const existing = await tryConnectDaemon().
RaceProbe(k, ipc) ==
    /\ cli.start[k] = "checking"
    /\ ipc \in tryConnectEither
    /\ cli' = [cli EXCEPT !.start[k] = IF ipc # Null THEN "existing" ELSE "spawn"]
    /\ RaceFrame

\* daemon start k: spawn(process.execPath, [serverPath], ...).  The first
\* process spawned is the daemon the model follows in full.
RaceSpawn(k) ==
    /\ cli.start[k] = "spawn"
    /\ IF pc = "none"
          THEN /\ pc' = "boot"
               /\ boot' = [boot EXCEPT !["daemon"] = BootStarted]
               /\ cli' = [cli EXCEPT !.start[k] = "waiting"]
       ELSE /\ cli.other = "none"
            /\ cli' = [cli EXCEPT !.start[k] = "waiting", !.other = "boot"]
            /\ UNCHANGED <<pc, boot>>
    /\ UNCHANGED <<exitCode, listener, sigHandlers, session, immediates, shutdowns,
                   connVars, file>>

\* The second daemon: its Session emits ready and server.listen succeeds.
OtherListen ==
    /\ cli.other = "boot"
    /\ cli' = [cli EXCEPT !.other = "writeState"]
    /\ RaceFrame

\* The second daemon, writeDaemonState: fs.writeFile opens the file with
\* O_CREAT | O_TRUNC.
OtherWriteOpen ==
    /\ cli.other = "writeState"
    /\ cli' = [cli EXCEPT !.other = "writing"]
    /\ file' = Empty
    /\ UNCHANGED <<daemonVars, connVars, boot>>

\* The second daemon, writeDaemonState: the content is written.
OtherWriteDone ==
    /\ cli.other = "writing"
    /\ cli' = [cli EXCEPT !.other = "serving"]
    /\ file' = OtherState
    /\ UNCHANGED <<daemonVars, connVars, boot>>

\* The second daemon receives a signal: shutdown closes its listener and
\* client.destroy() returns.
OtherShutdown ==
    /\ cli.other = "serving"
    /\ cli' = [cli EXCEPT !.other = "unlink"]
    /\ RaceFrame

\* The second daemon, removeDaemonState and process.exit(0).
OtherRemoveAndExit ==
    /\ cli.other = "unlink"
    /\ cli' = [cli EXCEPT !.other = "exited"]
    /\ file' = Absent
    /\ UNCHANGED <<daemonVars, connVars, boot>>

(***************************************************************************)
(* Specifications.                                                         *)
(***************************************************************************)
Signals == {"SIGTERM", "SIGINT"}

\* The boot of the daemon's main module, up to the registration of the
\* signal handlers.
BootSteps ==
    \/ DaemonQr
    \/ DaemonReady
    \/ DaemonError
    \/ DaemonInitRejected
    \/ DaemonInitResolved
    \/ DaemonTimeout
    \/ ListenOk
    \/ ListenFail
    \/ WriteFail
    \/ WriteOpen
    \/ WriteDone

\* Shutdown on a signal.
SignalSteps ==
    \/ \E sig \in Signals : OnSignal(sig)
    \/ \E i \in 1..Len(shutdowns) : DestroyReturns(i)
    \/ \E i \in 1..Len(shutdowns) : RemoveAndExit(i)

\* The daemon's callbacks for its connections.
ServeSteps ==
    \/ RunImmediate
    \/ \E c \in Conns : \E n \in 1..Len(wire[c]) : Deliver(c, n)
    \/ \E i \in 1..Len(inflight) : \E outcome \in Outcomes : CompleteOp(i, outcome)

\* The clients, writing lines of the set L.
ClientSteps(L) ==
    \/ \E c \in Conns : Accept(c)
    \/ \E c \in Conns : ClientClose(c)
    \/ \E c \in Conns, line \in L : ClientSend(c, line)

\* A command that calls connectClient.
ConnectSteps ==
    \/ ConnectStart
    \/ ProbeAnswered
    \/ ProbeRefused
    \/ ProbeTimeout
    \/ ConnectQr
    \/ ConnectReady
    \/ ConnectError
    \/ ConnectInitRejected
    \/ ConnectInitResolved
    \/ ConnectTimeout
    \/ CommandFinally

\* The state after the daemon's main module constructed its Session and ran
\* the executor of the boot wait.  The descriptor file is absent, or was
\* left by an earlier daemon that did not shut down, on another port or on
\* the port this daemon is given.
Init ==
    /\ pc = "boot"
    /\ exitCode = -1
    /\ boot = [w \in Waiters |-> IF w = "daemon" THEN BootStarted ELSE BootIdle]
    /\ listener = "none"
    /\ sigHandlers = {}
    /\ file \in {Absent, StaleState, Descriptor(DaemonPort, OLD_TOKEN)}
    /\ session = [ops |-> 0, destroys |-> 0]
    /\ immediates = <<>>
    /\ shutdowns = <<>>
    /\ sock = [c \in Conns |-> "none"]
    /\ wire = [c \in Conns |-> <<>>]
    /\ buf = [c \in Conns |-> <<>>]
    /\ out = [c \in Conns |-> <<>>]
    /\ sent = [c \in Conns |-> <<>>]
    /\ inflight = <<>>
    /\ cli = CliIdle

\* The life of a daemon process, and a command that calls connectClient.
Next == BootSteps \/ SignalSteps \/ ConnectSteps

Spec == Init /\ [][Next]_vars

\* The state after the main module ran to its end (line 331): the Session
\* emitted ready, the listener is bound, the descriptor is written and the
\* signal handlers are registered.
InitServing ==
    /\ pc = "serving"
    /\ exitCode = -1
    /\ boot = [w \in Waiters |->
                 IF w = "daemon"
                    THEN [OnReady(BootStarted) EXCEPT !.init = FALSE]
                 ELSE BootIdle]
    /\ listener = "listening"
    /\ sigHandlers = Signals
    /\ file = DaemonState
    /\ session = [ops |-> 0, destroys |-> 0]
    /\ immediates = <<>>
    /\ shutdowns = <<>>
    /\ sock = [c \in Conns |-> "none"]
    /\ wire = [c \in Conns |-> <<>>]
    /\ buf = [c \in Conns |-> <<>>]
    /\ out = [c \in Conns |-> <<>>]
    /\ sent = [c \in Conns |-> <<>>]
    /\ inflight = <<>>
    /\ cli = CliIdle

\* The lines the clients of SpecServe write.
ServeLines ==
    { RequestLine(Req("a", "ping", SECRET_TOKEN)),
      RequestLine(Req("b", "getThreads", SECRET_TOKEN)),
      RequestLine(Req("c", "stop", SECRET_TOKEN)),
      JunkLine, NullLine, BlankLine }

\* A serving daemon and its clients.
NextServe == SignalSteps \/ ServeSteps \/ ClientSteps(ServeLines)

SpecServe == InitServing /\ [][NextServe]_vars

\* Every line a client can write: a request of every method name with
\* every token value, with or without an id, and the lines that are no
\* request.
AllLines ==
    { RequestLine(Req(id, m, t)) : id \in {"a", NoId}, m \in MethodNames, t \in TokenValues }
    \cup { TruncatedLine(Req("a", "ping", SECRET_TOKEN)),
           JunkLine, NullLine, NumberLine, ArrayLine, BlankLine }

\* A serving daemon and one line of any kind.
NextLine ==
    \/ SignalSteps
    \/ ServeSteps
    \/ \E c \in Conns : Accept(c)
    \/ \E c \in Conns : ClientClose(c)
    \/ \E c \in Conns, line \in AllLines : LinesSent < MaxLinesOfAnyKind /\ ClientSend(c, line)

SpecLine == InitServing /\ [][NextLine]_vars

\* The descriptor file before a daemon writes it: absent, empty, the
\* unfinished or complete text of an earlier daemon, a JSON text that is
\* no descriptor, or a file that something else created with other
\* permission bits.
InitStore ==
    /\ pc = "writeState"
    /\ exitCode = -1
    /\ boot = [w \in Waiters |->
                 IF w = "daemon"
                    THEN [OnReady(BootStarted) EXCEPT !.init = FALSE]
                 ELSE BootIdle]
    /\ listener = "listening"
    /\ sigHandlers = {}
    /\ file \in {NoFile, File(<<>>, OwnerOnly), File(<<"{">>, OwnerOnly),
                 File(<<"{", "}">>, OwnerOnly), File(<<"[", "]">>, OwnerOnly),
                 File(<<"7">>, OwnerOnly), File(<<"0">>, OwnerOnly)}
            \cup {File(Stringify(d), m) :
                    d \in {x \in DaemonStates : x.pid = 7 /\ Len(x.token) = 1
                                                /\ x.startedAt = <<>>},
                    m \in {OwnerOnly, ModeBits \ {"gw", "ow"}}}
    /\ session = [ops |-> 0, destroys |-> 0]
    /\ immediates = <<>>
    /\ shutdowns = <<>>
    /\ sock = [c \in Conns |-> "none"]
    /\ wire = [c \in Conns |-> <<>>]
    /\ buf = [c \in Conns |-> <<>>]
    /\ out = [c \in Conns |-> <<>>]
    /\ sent = [c \in Conns |-> <<>>]
    /\ inflight = <<>>
    /\ cli = StoreIdle

NextStore ==
    \/ \E d \in DaemonStates, umask \in Umasks : StoreOpen(d, umask)
    \/ \E all \in BOOLEAN : StoreWrite(all)
    \/ StoreRead
    \/ StoreRemove

SpecStore == InitStore /\ [][NextStore]_vars

\* A command holds the proxy that connectClient returned on the fast path.
ProxyReady ==
    [CliIdle EXCEPT !.pc = "returned", !.state = DaemonState, !.probe = "resolved",
                    !.reply = Result("probe", <<"pong">>), !.handle = "ipc",
                    !.port = DaemonPort, !.token = SECRET_TOKEN]

\* A serving daemon and a command that calls one method of its proxy.
InitProxy ==
    /\ pc = "serving"
    /\ exitCode = -1
    /\ boot = [w \in Waiters |->
                 IF w = "daemon"
                    THEN [OnReady(BootStarted) EXCEPT !.init = FALSE]
                 ELSE BootIdle]
    /\ listener = "listening"
    /\ sigHandlers = Signals
    /\ file = DaemonState
    /\ session = [ops |-> 0, destroys |-> 0]
    /\ immediates = <<>>
    /\ shutdowns = <<>>
    /\ sock = [c \in Conns |-> "none"]
    /\ wire = [c \in Conns |-> <<>>]
    /\ buf = [c \in Conns |-> <<>>]
    /\ out = [c \in Conns |-> <<>>]
    /\ sent = [c \in Conns |-> <<>>]
    /\ inflight = <<>>
    /\ cli = ProxyReady

NextProxy ==
    \/ SignalSteps
    \/ \E c \in Conns : \E n \in 1..Len(wire[c]) : Deliver(c, n)
    \/ \E i \in 1..Len(inflight) : \E outcome \in Outcomes : CompleteOp(i, outcome)
    \/ \E c \in Conns, method \in SessionMethods : ProxyCall(c, method)
    \/ ProxyReply
    \/ ProxyTimeout
    \/ ProxyClosed
    \/ \E c \in Conns, resp \in StrayLines : ProxyStray(c, resp)

SpecProxy == InitProxy /\ [][NextProxy]_vars

\* An operator command starts: no daemon runs and the descriptor file is
\* absent or was left by an earlier daemon, or a daemon is serving.
InitOps ==
    /\ \/ /\ pc = "none"
          /\ boot = [w \in Waiters |-> BootIdle]
          /\ listener = "none"
          /\ sigHandlers = {}
          /\ file \in {Absent, StaleState, Descriptor(DaemonPort, OLD_TOKEN)}
       \/ /\ pc = "serving"
          /\ boot = [w \in Waiters |->
                       IF w = "daemon"
                          THEN [OnReady(BootStarted) EXCEPT !.init = FALSE]
                       ELSE BootIdle]
          /\ listener = "listening"
          /\ sigHandlers = Signals
          /\ file = DaemonState
    /\ exitCode = -1
    /\ session = [ops |-> 0, destroys |-> 0]
    /\ immediates = <<>>
    /\ shutdowns = <<>>
    /\ sock = [c \in Conns |-> "none"]
    /\ wire = [c \in Conns |-> <<>>]
    /\ buf = [c \in Conns |-> <<>>]
    /\ out = [c \in Conns |-> <<>>]
    /\ sent = [c \in Conns |-> <<>>]
    /\ inflight = <<>>
    /\ cli \in {OpIdle(cmd) : cmd \in {"start", "status", "stop"}}

\* The steps of the operator commands.
OpSteps ==
    \/ \E ipc \in {Null, DaemonState} : StartProbe(ipc)
    \/ StartExisting
    \/ StartSpawn
    \/ StartTick
    \/ \E ipc \in {Null, DaemonState} : StartProbed(ipc)
    \/ StartFinal
    \/ OpRead
    \/ \E ipc \in {Null, DaemonState} : StatusProbe(ipc)
    \/ \E ipc \in {Null, DaemonState} : StopProbe(ipc)
    \/ StopUnlink
    \/ \E c \in Conns : StopConnect(c)
    \/ \E c \in Conns : StopTimer(c)
    \/ StopPoll
    \/ ExitEffect

\* The daemon's steps that an operator command can meet.
NextOps ==
    \/ OpSteps
    \/ BootSteps
    \/ SignalSteps
    \/ RunImmediate
    \/ \E c \in Conns : \E n \in 1..Len(wire[c]) : Deliver(c, n)

SpecOps == InitOps /\ [][NextOps]_vars

\* The event loop of daemon start runs its timers and the callbacks of
\* the reads and probes it awaits.
StartSteps ==
    \/ \E ipc \in {Null, DaemonState} : StartProbe(ipc)
    \/ StartExisting
    \/ StartSpawn
    \/ StartTick
    \/ \E ipc \in {Null, DaemonState} : StartProbed(ipc)
    \/ StartFinal

SpecOpsFair == InitOps /\ [][NextOps]_vars /\ WF_vars(StartSteps)

\* A proxy call is about to resolve with a result of the serving daemon.
InitRevive ==
    /\ pc = "serving"
    /\ exitCode = -1
    /\ boot = [w \in Waiters |->
                 IF w = "daemon"
                    THEN [OnReady(BootStarted) EXCEPT !.init = FALSE]
                 ELSE BootIdle]
    /\ listener = "listening"
    /\ sigHandlers = Signals
    /\ file = DaemonState
    /\ session = [ops |-> 0, destroys |-> 0]
    /\ immediates = <<>>
    /\ shutdowns = <<>>
    /\ sock = [c \in Conns |-> "none"]
    /\ wire = [c \in Conns |-> <<>>]
    /\ buf = [c \in Conns |-> <<>>]
    /\ out = [c \in Conns |-> <<>>]
    /\ sent = [c \in Conns |-> <<>>]
    /\ inflight = <<>>
    /\ cli \in {[pc |-> "call", value |-> v, result |-> JsonNull] : v \in JsonValues(MaxDepth)}

SpecRevive == InitRevive /\ [][Revive]_vars

\* The state after the main module ran to its end, with the sockets of
\* several clients.
InitPeers ==
    /\ pc = "serving"
    /\ exitCode = -1
    /\ boot = [w \in Waiters |->
                 IF w = "daemon"
                    THEN [OnReady(BootStarted) EXCEPT !.init = FALSE]
                 ELSE BootIdle]
    /\ listener = "listening"
    /\ sigHandlers = Signals
    /\ file = DaemonState
    /\ session = [ops |-> 0, destroys |-> 0]
    /\ immediates = <<>>
    /\ shutdowns = <<>>
    /\ sock = [c \in Peers |-> "none"]
    /\ wire = [c \in Peers |-> <<>>]
    /\ buf = [c \in Peers |-> <<>>]
    /\ out = [c \in Peers |-> <<>>]
    /\ sent = [c \in Peers |-> <<>>]
    /\ inflight = <<>>
    /\ cli = CliIdle

\* The lines the clients of SpecPeers write.
PeerLines ==
    { RequestLine(Req("b", "getThreads", SECRET_TOKEN)),
      RequestLine(Req("d", "getThreads", OLD_TOKEN)),
      RequestLine(Req("c", "stop", SECRET_TOKEN)) }

\* A serving daemon and several clients, each on its own connection.
NextPeers ==
    \/ SignalSteps
    \/ RunImmediate
    \/ \E c \in Peers : \E n \in 1..Len(wire[c]) : Deliver(c, n)
    \/ \E i \in 1..Len(inflight) : \E outcome \in Outcomes : CompleteOp(i, outcome)
    \/ \E c \in Peers : Accept(c)
    \/ \E c \in Peers : ClientClose(c)
    \/ \E c \in Peers, line \in PeerLines : ClientSend(c, line)

SpecPeers == InitPeers /\ [][NextPeers]_vars

\* Two invocations of daemon start begin while no daemon runs; the
\* descriptor file is absent or was left by an earlier daemon.
InitRace ==
    /\ pc = "none"
    /\ exitCode = -1
    /\ boot = [w \in Waiters |-> BootIdle]
    /\ listener = "none"
    /\ sigHandlers = {}
    /\ file \in {Absent, StaleState}
    /\ session = [ops |-> 0, destroys |-> 0]
    /\ immediates = <<>>
    /\ shutdowns = <<>>
    /\ sock = [c \in Conns |-> "none"]
    /\ wire = [c \in Conns |-> <<>>]
    /\ buf = [c \in Conns |-> <<>>]
    /\ out = [c \in Conns |-> <<>>]
    /\ sent = [c \in Conns |-> <<>>]
    /\ inflight = <<>>
    /\ cli = RaceIdle

NextRace ==
    \/ \E k \in 1..2, ipc \in {Null, DaemonState, OtherState} : RaceProbe(k, ipc)
    \/ \E k \in 1..2 : RaceSpawn(k)
    \/ OtherListen
    \/ OtherWriteOpen
    \/ OtherWriteDone
    \/ OtherShutdown
    \/ OtherRemoveAndExit
    \/ BootSteps
    \/ SignalSteps

SpecRace == InitRace /\ [][NextRace]_vars

(***************************************************************************)
(* Properties.                                                             *)
(***************************************************************************)
\* A step is the data event of connection c: the daemon read characters
\* of the wire.
DataEvent(c) ==
    sock[c] = "open" /\ sock'[c] = "open" /\ Len(wire'[c]) < Len(wire[c])

\* The parsed non-blank lines that the data event completed.
LinesRead(c) ==
    Parsed(CompleteLines(buf[c] \o SubSeq(wire[c], 1, Len(wire[c]) - Len(wire'[c]))))

\* Everything the client of c wrote was read, no handler of c is suspended,
\* the client did not destroy its socket and no signal was delivered.
Drained(c) ==
    /\ sock[c] = "open"
    /\ wire[c] = <<>>
    /\ \A i \in 1..Len(inflight) : inflight[i].conn # c
    /\ sigHandlers = Signals

NonBlank(lines) == SelectSeq(lines, LAMBDA l : Trim(l) # <<>>)
StopResponse(e) == e.resp.has = "result" /\ e.resp.val = <<"stopping">>
StopAccepted == \E c \in Conns : \E i \in 1..Len(out[c]) : StopResponse(out[c][i])

\* C1: a data event whose lines are all requests with a token that is not
\* the secret calls no Session operation, schedules and starts no shutdown,
\* and leaves the Session, the listener and the descriptor file as they were.
C1_UnauthorizedHasNoEffect ==
    [][\A c \in Conns :
          (/\ DataEvent(c)
           /\ LinesRead(c) # <<>>
           /\ \A i \in 1..Len(LinesRead(c)) :
                 /\ LinesRead(c)[i].j = "object"
                 /\ LinesRead(c)[i].r.token # SECRET_TOKEN)
          => UNCHANGED <<session, immediates, shutdowns, inflight, listener, file>>]_vars

\* C2: every response to a request whose token is not the secret (absent,
\* empty, shorter, longer, other content, other byte length, not a string)
\* is exactly {id, error: "Unauthorized"}.
C2_BadTokenAnsweredUnauthorized ==
    \A c \in Conns : \A i \in 1..Len(out[c]) :
        LET e == out[c][i] IN
        (e.cause.j \in {"object", "number", "array"} /\ Fields(e.cause).token # SECRET_TOKEN)
        => e.resp = Error(Fields(e.cause).id, <<"Unauthorized">>)

\* C3: no data event ends the daemon process, and every non-blank line it
\* completes is answered or has its handler suspended on a Session operation.
C3_NoLineEndsTheDaemon ==
    [][\A c \in Conns :
          DataEvent(c)
          => /\ pc' = pc
             /\ Len(out'[c]) + Len(inflight')
                  = Len(out[c]) + Len(inflight) + Len(LinesRead(c))]_vars

\* C4: when a connection on which only request lines were written is
\* drained, it carries as many responses as requests, and every id occurs
\* as often among the responses as among the requests.
C4_OneResponsePerRequest ==
    \A c \in Conns :
        (/\ Drained(c)
         /\ \A i \in 1..Len(sent[c]) : JsonParse(sent[c][i]).j = "object")
        => /\ Len(out[c]) = Len(sent[c])
           /\ \A k \in 1..Len(sent[c]) :
                 LET id == JsonParse(sent[c][k]).r.id IN
                 Cardinality({i \in 1..Len(out[c]) : out[c][i].resp.id = id})
                   = Cardinality({i \in 1..Len(sent[c]) : JsonParse(sent[c][i]).r.id = id})

\* C5: when a connection on which a line that is no JSON was written is
\* drained, it carries one '?' response for each such line and one response
\* for every non-blank line, those after the unparseable line included.
C5_InvalidJsonDoesNotEndTheConnection ==
    \A c \in Conns :
        (/\ Drained(c)
         /\ \E i \in 1..Len(sent[c]) :
               Trim(sent[c][i]) # <<>> /\ JsonParse(sent[c][i]) = SyntaxError)
        => /\ Len(SelectSeq(out[c], LAMBDA e : e.resp = Error("?", <<"Invalid JSON">>)))
                = Len(Unparseable(Parsed(sent[c])))
           /\ Len(out[c]) = Len(NonBlank(sent[c]))

C7_StopRemovesDescriptor ==
    (StopAccepted /\ pc = "exited") => (listener = "closed" /\ file = Absent)

\* C8: connectClient returns a proxy, bound to the port and token of the
\* descriptor and with no Session constructed, exactly when a descriptor
\* was read and the ping with its token was answered with a result;
\* otherwise it constructs a Session and runs the boot wait on it.
C8_ProxyExactlyWhenProbeAnswered ==
    /\ cli.handle = "ipc"
       => /\ cli.pc = "returned"
          /\ cli.state.kind = "descriptor"
          /\ cli.reply = Result("probe", <<"pong">>)
          /\ cli.port = cli.state.port /\ cli.token = cli.state.token
          /\ cli.sessions = 0 /\ boot["connect"] = BootIdle
    /\ (cli.pc \notin {"idle", "probe"} /\ cli.state # Null /\ cli.reply.has = "result")
       => cli.handle = "ipc"
    /\ (cli.pc \notin {"idle", "probe"} /\ cli.handle # "ipc")
       => /\ cli.sessions = 1 /\ boot["connect"] # BootIdle
          /\ cli.state = Null \/ cli.reply.has # "result"
    /\ cli.handle = "session" => boot["connect"].promise = "resolved"

\* connectClient returned a proxy bound to the serving daemon.
C8_Witness ==
    /\ cli.handle = "ipc" /\ cli.token = SECRET_TOKEN
    /\ pc = "serving"

\* The outcome of the boot wait that an event, arriving first, decides.
OutcomeOf(first) ==
    CASE first = "ready" -> "resolved"
      [] first = "qr" -> "rejected: not logged in"
      [] first = "error" -> "rejected: error"
      [] first = "initialize" -> "rejected: initialize"
      [] first = "timeout" -> "rejected: timed out"

\* C9: in the boot wait of the daemon and of connectClient the first event
\* decides the outcome, whatever arrives later: after qr first the wait has
\* failed with not-logged-in, after ready first it has succeeded.
C9_FirstEventDecides ==
    /\ \A w \in Waiters :
          boot[w].first # "none" => boot[w].promise = OutcomeOf(boot[w].first)
    /\ boot["daemon"].first = "qr" => (pc = "exited" /\ exitCode = 1)
    /\ boot["daemon"].first = "ready" => pc # "boot"
    /\ boot["connect"].first = "qr" => cli.pc = "thrown"
    /\ boot["connect"].first = "ready" => (cli.pc = "returned" /\ cli.handle = "session")

\* In connectClient ready arrived after qr, and in the daemon error
\* arrived after ready.
C9_Witness ==
    /\ boot["connect"].first = "qr" /\ ~boot["connect"].ready
    /\ boot["daemon"].first = "ready" /\ ~boot["daemon"].error

\* The boot of the daemon failed: the boot wait was rejected, or the bind
\* failed.
BootFailed ==
    \/ boot["daemon"].promise \notin {"pending", "resolved"}
    \/ pc = "exited" /\ boot["daemon"].promise = "resolved" /\ listener = "none"

\* C10: the descriptor file changes only after the Session emitted ready
\* first and the listener was bound, and it is written only while the
\* listener is bound; a daemon whose boot failed has exited with a non-zero
\* status and the step that ends it leaves the file as it was.
C10_DescriptorOnlyWhenReadyAndBound ==
    /\ [][file' # file
            => /\ boot["daemon"].first = "ready"
               /\ listener # "none"
               /\ file' # Absent => listener = "listening"]_vars
    /\ [][BootFailed' => file' = file]_vars
    /\ [](BootFailed => (pc = "exited" /\ exitCode = 1))

\* A daemon wrote its descriptor over the one an earlier daemon left.
C10_Witness ==
    /\ file = DaemonState /\ pc = "serving"
    /\ boot["daemon"].first = "ready" /\ listener = "listening"

\* The file holds the complete text of a DaemonState with a non-empty token.
ValidFile(f) ==
    /\ f.kind = "file"
    /\ ~JsonParseState(f.text).threw
    /\ "token" \in DOMAIN JsonParseState(f.text).val[1]
    /\ JsonParseState(f.text).val[1].token # <<>>

\* C11: readDaemonState right after a finished writeDaemonState(d), with no
\* other operation on the file in between, returns a descriptor whose pid,
\* port, startedAt and token equal those of d.
C11_WriteThenReadReturnsWritten ==
    (cli.pc = "written" /\ cli.read # <<>>)
    => /\ ~cli.read[1].got.threw
       /\ cli.read[1].got.val = <<cli.d>>

\* A descriptor whose token holds a backslash and a quote was written, then read.
C11_Witness ==
    /\ cli.pc = "written" /\ cli.read # <<>>
    /\ cli.d.token = <<BACKSLASH, QUOTE>>
    /\ cli.d.pid = 10

\* C12: readDaemonState never raises, and it returns null when the file
\* does not exist, is empty, or holds a text that is cut short.
C12_UnreadableFileReadsAsNull ==
    cli.read # <<>>
    => LET r == cli.read[1] IN
       /\ ~r.got.threw
       /\ (r.of.kind = "absent" \/ r.of.text = <<>> \/ r.of.text = <<"{">>
           \/ (cli.pc = "writing" /\ Len(r.of.text) < Len(Stringify(cli.d))))
          => r.got.val = <<>>

\* A text cut short in the middle of a write was read as null.
C12_Witness ==
    /\ cli.pc = "writing" /\ cli.read # <<>>
    /\ Len(cli.read[1].of.text) > 1
    /\ cli.read[1].got.val = <<>>

\* C13: from the moment writeDaemonState opens the file, the file is absent
\* or holds a complete descriptor with a non-empty token, and so is every
\* file that a readDaemonState of another process observes.
C13_NoPartialDescriptorObservable ==
    cli.pc \in {"writing", "written"}
    => /\ file.kind = "absent" \/ ValidFile(file)
       /\ cli.read # <<>>
          => (cli.read[1].of.kind = "absent" \/ ValidFile(cli.read[1].of))

\* C14: after a successful writeDaemonState the permission bits of the file
\* are among owner-read and owner-write, whether or not the file existed.
C14_DescriptorOwnerOnly ==
    cli.pc = "written" => file.mode \subseteq OwnerOnly

\* C15: when connectClient has finished after it read a descriptor whose
\* liveness probe failed, that descriptor is no longer on disk.
C15_StaleDescriptorRemoved ==
    (cli.pc \in {"returned", "thrown"} /\ cli.state # Null /\ cli.handle # "ipc")
    => file # cli.state

\* C16: when the command that called connectClient has ended, every Session
\* that connectClient constructed has been destroyed.
C16_PrivateSessionDestroyed ==
    cli.finally => cli.destroyed = cli.sessions

\* C17: a proxy call that is rejected by its timer, by the close of the
\* socket or by a connection error is rejected with an error of one kind,
\* that of the timeout error, whose message names the method called.
C17_CallFailureNamesTheMethod ==
    (cli.call.at = "rejected" /\ cli.call.cause \in {"timeout", "closed", "error"})
    => /\ cli.call.err.kind = TimeoutError(cli.call.method).kind
       /\ \E i \in 1..Len(cli.call.err.text) : cli.call.err.text[i] = cli.call.method

C19_InFlightAnsweredBeforeExit ==
    [][(pc # "exited" /\ pc' = "exited" /\ exitCode' = 0)
         => \A i \in 1..Len(inflight) :
               ~(~inflight[i].lc /\ sock[inflight[i].conn] = "open")]_vars

\* C20: a daemon that handled SIGTERM or SIGINT and whose process has ended
\* went through the shutdown: listener closed, Session destroyed,
\* descriptor removed, exit status 0.
C20_SignalShutsDown ==
    (sigHandlers # Signals /\ pc = "exited")
    => /\ exitCode = 0
       /\ listener = "closed" /\ session.destroys > 0 /\ file = Absent

\* C21: a command daemon start, daemon stop or daemon status that has set
\* its exit code is in the done or the error phase, the code is 1 exactly
\* in the error phase and 0 in the done phase, and the outcomes 'daemon is
\* not running' and 'cleaned up stale state file' are done outcomes.
C21_ExitCodeFollowsPhase ==
    /\ cli.exitCode # -1
       => /\ cli.pc = "end" /\ cli.phase \in {"done", "error"}
          /\ cli.exitCode = (IF cli.phase = "error" THEN 1 ELSE 0)
    /\ cli.message \in {"not running", "cleaned up stale state file"}
       => cli.phase = "done"

\* daemon start ended in the error phase with exit code 1, and daemon stop
\* is not the only command that ends.
C21_Witness ==
    /\ cli.cmd = "start" /\ cli.phase = "error" /\ cli.exitCode = 1
    /\ cli.spawned /\ cli.ticks = PollTicks

\* C22: a daemon start whose first probe was answered ends in the done
\* phase and reports the descriptor of the daemon that answered, and it
\* spawns a daemon process only after its first probe failed.
C22_ReachableDaemonReportedNotSpawned ==
    /\ [](cli.cmd = "start" /\ cli.pc = "end" /\ ~cli.spawned
            => cli.phase = "done" /\ cli.report = cli.ipc)
    /\ [][cli'.spawned # cli.spawned => cli.pc = "spawn" /\ cli.ipc = Null]_vars

\* C23: every response to a request with the secret as its token and a
\* method name outside the closed set is {id, error: "Unknown RPC method: "
\* followed by that name}, and the data event that reads such requests
\* answers each of them, calls no Session operation, schedules and starts
\* no shutdown and leaves the daemon serving.
C23_UnknownMethodAnswered ==
    /\ [](\A c \in Conns : \A i \in 1..Len(out[c]) :
            LET e == out[c][i] IN
            (/\ e.cause.j = "object"
             /\ e.cause.r.token = SECRET_TOKEN
             /\ e.cause.r.method \notin Methods)
            => e.resp = Error(e.cause.r.id, <<"Unknown RPC method: ", e.cause.r.method>>))
    /\ [][\A c \in Conns :
            (/\ DataEvent(c)
             /\ LinesRead(c) # <<>>
             /\ \A i \in 1..Len(LinesRead(c)) :
                   /\ LinesRead(c)[i].j = "object"
                   /\ LinesRead(c)[i].r.token = SECRET_TOKEN
                   /\ LinesRead(c)[i].r.method \notin Methods)
            => /\ Len(out'[c]) = Len(out[c]) + Len(LinesRead(c))
               /\ UNCHANGED <<pc, exitCode, listener, file, session, inflight,
                              immediates, shutdowns>>]_vars

\* The request {id: "a", method: "bogus", token: the secret} was answered
\* while the daemon serves.
C23_Witness ==
    /\ pc = "serving" /\ listener = "listening" /\ session.ops = 0
    /\ \E c \in Conns : \E i \in 1..Len(out[c]) :
          /\ out[c][i].cause.r = Req("a", "bogus", SECRET_TOKEN)
          /\ out[c][i].resp = Error("a", <<"Unknown RPC method: ", "bogus">>)

\* C24 as stated: every response line written for a line that parsed as
\* JSON has an id member equal to the id of the request, and exactly one of
\* the members result and error.
C24_ResponseCarriesIdAndOneOutcome ==
    \A c \in Conns : \A i \in 1..Len(out[c]) :
        LET e == out[c][i] IN
        e.cause # SyntaxError
        => /\ "id" \in Line(e.resp)
           /\ e.resp.id = Fields(e.cause).id
           /\ Cardinality(Line(e.resp) \cap {"result", "error"}) = 1

\* C24: every response line written for a line that parsed as JSON has the
\* id of the request as its id member when the request has an id, and no id
\* member when the request has none; it has exactly one of the members
\* result and error, whatever the token and whatever the method does.
C24_ResponseEchoesIdAndOneOutcome ==
    \A c \in Conns : \A i \in 1..Len(out[c]) :
        LET e == out[c][i] IN
        e.cause # SyntaxError
        => /\ e.resp.id = Fields(e.cause).id
           /\ "id" \in Line(e.resp) <=> Fields(e.cause).id # NoId
           /\ Cardinality(Line(e.resp) \cap {"result", "error"}) = 1

\* A findChatByName request with the secret and no id, whose operation
\* returned undefined, was answered with the result null and no id.
C24_Witness ==
    \E c \in Conns : \E i \in 1..Len(out[c]) :
        /\ out[c][i].cause.r = Req(NoId, "findChatByName", SECRET_TOKEN)
        /\ out[c][i].resp = Result(NoId, <<"null">>)
        /\ Line(out[c][i].resp) = {"result"}

\* C25: the step in which a Session operation throws an error with message
\* m, for a request of an open connection, writes {id, error: m} with the
\* id of that request as the next response of the connection, leaves the
\* connection open, and leaves the daemon as it was: serving or not,
\* listener, Session, descriptor file, shutdowns scheduled or begun.
C25_OperationErrorAnswered ==
    [][\A i \in 1..Len(inflight) : \A o \in Outcomes :
          (/\ o.k = "throw"
           /\ sock[inflight[i].conn] = "open"
           /\ CompleteOp(i, o))
          => /\ out'[inflight[i].conn]
                  = Append(out[inflight[i].conn],
                           Entry(Error(inflight[i].req.id, o.v),
                                 [j |-> "object", r |-> inflight[i].req],
                                 listener = "closed"))
             /\ UNCHANGED <<pc, exitCode, listener, file, sock, session,
                            immediates, shutdowns>>]_vars

\* The operation of request b threw; the error was written, and a ping sent
\* after it on the same connection was answered by the serving daemon.
C25_Witness ==
    /\ pc = "serving" /\ listener = "listening" /\ file = DaemonState
    /\ \E c \in Conns :
          /\ Len(out[c]) = 2
          /\ out[c][1].resp = Error("b", <<"boom">>)
          /\ out[c][2].resp = Result("a", <<"pong">>)
          /\ sock[c] = "open"

\* C26: a data event that completes ping requests on a connection writes
\* their responses in that same step and leaves the suspended handlers as
\* they are, also while a handler of that connection waits on the Session;
\* and every step only appends to the responses of a connection, so that
\* they stand in the order in which their handlers completed.
C26_SlowRequestDoesNotDelayLater ==
    /\ [][\A c \in Conns :
            (/\ DataEvent(c)
             /\ LinesRead(c) # <<>>
             /\ \A i \in 1..Len(LinesRead(c)) :
                   /\ LinesRead(c)[i].j = "object"
                   /\ LinesRead(c)[i].r.method = "ping"
                   /\ LinesRead(c)[i].r.token = SECRET_TOKEN)
            => /\ out'[c] = out[c] \o
                     [i \in 1..Len(LinesRead(c)) |->
                        Entry(Result(LinesRead(c)[i].r.id, <<"pong">>), LinesRead(c)[i],
                              listener = "closed")]
               /\ inflight' = inflight]_vars
    /\ [][\A c \in Conns :
            /\ Len(out'[c]) >= Len(out[c])
            /\ SubSeq(out'[c], 1, Len(out[c])) = out[c]]_vars

\* Request b (getThreads) was written before request a (ping) on one
\* connection; the response to a was written first, while the handler of b
\* waited, and the response to b after it.
C26_Witness ==
    \E c \in Conns :
        /\ Len(sent[c]) = 2 /\ Len(out[c]) = 2
        /\ JsonParse(sent[c][1]).r.id = "b" /\ JsonParse(sent[c][2]).r.id = "a"
        /\ out[c][1].resp = Result("a", <<"pong">>)
        /\ out[c][2].resp = Result("b", <<"value">>)

\* C27: the step in which a client destroys its socket, by closing it or by
\* the timeout of its call, cancels no handler and leaves the daemon and its
\* Session as they were; a Session operation that ends for a handler whose
\* socket is destroyed ends that handler and changes nothing else; and
\* nothing is written for a connection whose socket is destroyed.
C27_ClosedSocketCancelsNothing ==
    /\ [][\A c \in Conns :
            (sock[c] = "open" /\ sock'[c] = "destroyed")
            => UNCHANGED <<inflight, session, pc, exitCode, listener, file,
                           immediates, shutdowns>>]_vars
    /\ [][\A i \in 1..Len(inflight) : \A o \in Outcomes :
            (sock[inflight[i].conn] = "destroyed" /\ CompleteOp(i, o))
            => /\ Len(inflight') = Len(inflight) - 1
               /\ UNCHANGED <<out, session, pc, exitCode, listener, file,
                              immediates, shutdowns>>]_vars
    /\ [][\A c \in Conns : sock[c] = "destroyed" => out'[c] = out[c]]_vars

\* The timer of a sendMessage call ran out and the call was rejected; the
\* operation of the Session ended afterwards, nothing was written, and the
\* daemon serves.
C27_Witness ==
    /\ cli.call.method = "sendMessage"
    /\ cli.call.at = "rejected" /\ cli.call.cause = "timeout"
    /\ session.ops = 1 /\ inflight = <<>>
    /\ out[cli.call.conn] = <<>> /\ sock[cli.call.conn] = "destroyed"
    /\ pc = "serving" /\ listener = "listening" /\ file = DaemonState

\* C28: a proxy call that connected has a connection of its own on which
\* exactly one line was written, the request with its id, its method and
\* the token of the proxy; it settles at most once; a call settled by a
\* response was settled by a line with its id and never by a line with
\* another id or a line that is no JSON; once settled its socket is
\* destroyed and its timer cleared, and no later event changes its outcome.
C28_CallSettlesOnceOnItsOwnLine ==
    /\ [](cli.call.at # "none"
            => /\ cli.call.settles <= 1
               /\ cli.call.settles = 1 <=> cli.call.at # "pending"
               /\ sock[cli.call.conn] # "none"
                  => sent[cli.call.conn]
                       = <<RequestLine(Req(CallId, cli.call.method, cli.token))>>)
    /\ [](cli.call.at \in {"resolved", "rejected"}
            => /\ sock[cli.call.conn] \in {"destroyed", "none"}
               /\ ~cli.call.timer
               /\ cli.call.cause \in {"result", "response"}
                  => \E i \in 1..Len(out[cli.call.conn]) :
                        /\ out[cli.call.conn][i].resp.id = CallId
                        /\ out[cli.call.conn][i].cause.j # "stray")
    /\ [][cli.call.at \in {"resolved", "rejected"}
            => /\ cli'.call.at = cli.call.at
               /\ cli'.call.cause = cli.call.cause
               /\ cli'.call.err = cli.call.err
               /\ sock' = sock]_vars

\* A call passed over a stray line, was resolved by the response with its
\* id that came after it, and the close event of its socket was emitted.
C28_Witness ==
    /\ cli.call.at = "resolved" /\ cli.call.close = "emitted"
    /\ Len(out[cli.call.conn]) = 2
    /\ out[cli.call.conn][1].cause.j = "stray"
    /\ out[cli.call.conn][2].resp.id = CallId

RECURSIVE Revived(_, _)
Revived(v, r) ==
    CASE v.type = "string" ->
            IF ISO_RE(v.v) THEN (ValidDate(v.v) => r = Date(v.v)) ELSE r = v
      [] v.type = "array" ->
            /\ r.type = "array" /\ Len(r.v) = Len(v.v)
            /\ \A i \in 1..Len(v.v) : Revived(v.v[i], r.v[i])
      [] v.type = "object" ->
            /\ r.type = "object" /\ Len(r.v) = Len(v.v)
            /\ \A i \in 1..Len(v.v) :
                  r.v[i].k = v.v[i].k /\ Revived(v.v[i].v, r.v[i].v)
      [] OTHER -> r = v

\* C30: what reviveDates returns for a JSON value is that value with every
\* valid date-time string, at every depth, replaced by a date, and with
\* every other string, every other scalar, the keys of every object and
\* the length and order of every array as they were.
C30_ReviveKeepsEverythingButDates ==
    cli.pc = "returned" => Revived(cli.value, cli.result)

\* C31: the daemon has one Session, and a data event of any connection
\* starts one operation of it for each of its requests that carries the
\* secret and names a Session method, whatever operations of other
\* connections are running: nothing waits for a lock.
C31_NoLockOnTheOneSession ==
    [][\A c \in Peers :
          DataEvent(c) =>
             LET k == Len(SelectSeq(LinesRead(c),
                        LAMBDA p : /\ p.j = "object"
                                   /\ p.r.token = SECRET_TOKEN
                                   /\ p.r.method \in SessionMethods))
             IN /\ session'.ops = session.ops + k
                /\ pc' # "exited" => Len(inflight') = Len(inflight) + k]_vars

\* Two requests of different connections are inside Session operations at
\* the same time.
C31_Witness ==
    /\ session.ops = 2
    /\ \E i, j \in 1..Len(inflight) : inflight[i].conn # inflight[j].conn

\* C32: whatever stop requests and signals arrive, shutdown is started at
\* most once: the Session's destroy is invoked at most once (each start of
\* shutdown closes the listener and invokes destroy).
C32_ShutdownStartedAtMostOnce ==
    session.destroys <= 1 /\ Len(shutdowns) <= 1

\* C33: after the Session's destroy was invoked, no operation of the
\* Session is started.
C33_NoOperationAfterDestroy ==
    [][session.destroys > 0 => session'.ops = session.ops]_vars

\* C34: with two invocations of daemon start and the daemons they spawn,
\* a daemon that is serving has its own descriptor on disk, and the
\* descriptor of a daemon is removed by that daemon's shutdown only.
C34_ServingDaemonKeepsItsDescriptor ==
    /\ [](pc = "serving" /\ listener = "listening" => file = DaemonState)
    /\ [](cli.other = "serving" => file = OtherState)
    /\ [][/\ file = DaemonState /\ file' = Absent => pc' = "exited"
          /\ file = OtherState /\ file' = Absent => cli'.other = "exited"]_vars

\* C35: the unlink of daemon stop's stale-cleanup branch never removes
\* the descriptor of a daemon that is serving.
C35_StopKeepsDescriptorOfServingDaemon ==
    [][cli.cmd = "stop" /\ cli.pc = "unlink" /\ cli'.pc = "end"
          => ~(file = DaemonState /\ DaemonAlive /\ listener = "listening")]_vars

\* C36: when daemon stop reports that the daemon was stopped, the
\* descriptor file is absent and the daemon accepts no connection.
C36_StoppedMeansDescriptorGone ==
    cli.cmd = "stop" /\ cli.message = "stopped"
        => file.kind = "absent" /\ ~(DaemonAlive /\ listener = "listening")

\* C37: a proxy call that was settled by the response with its id is
\* rejected when that response has an error member, whatever the string,
\* and resolved only when it has a result.
C37_ErrorResponseRejectsTheCall ==
    cli.call.cause \in {"result", "response"} =>
        \A i \in 1..Len(out[cli.call.conn]) :
            LET resp == out[cli.call.conn][i].resp IN
            (/\ resp.has # "none" /\ resp.id = CallId
             /\ \A j \in 1..(i - 1) :
                   \/ out[cli.call.conn][j].resp.has = "none"
                   \/ out[cli.call.conn][j].resp.id # CallId)
            => /\ resp.has = "error" => cli.call.at = "rejected"
               /\ cli.call.at = "resolved" => resp.has = "result"

\* C38: the daemon leaves the serving state only by a shutdown that an
\* authenticated stop request or a signal started; nothing else that a
\* client does, the destroy of its proxy included, ends it.
C38_OnlyStopOrSignalEndsTheDaemon ==
    [][pc = "serving" /\ pc' = "exited" => shutdowns # <<>>]_vars

\* C39: a step of daemon start or daemon status, with their reads of the
\* descriptor and their probes, leaves the descriptor file as it is: the
\* file changes only by the unlink of daemon stop, by the daemon's write of
\* its descriptor, and by the daemon's removal of it on shutdown.
C39_OnlyStopDeletesOnlyDaemonWrites ==
    [][file' # file =>
          \/ cli.cmd = "stop" /\ cli.pc = "unlink" /\ file' = Absent
          \/ cli' = cli /\ pc \in {"writeState", "writing"} /\ file' \in {Empty, DaemonState}
          \/ cli' = cli /\ pc' = "exited" /\ shutdowns # <<>> /\ file' = Absent]_vars

\* daemon status found a descriptor that no daemon answered for, reported
\* it and ended; the descriptor is on disk as it was.
C39_Witness ==
    /\ cli.cmd = "status" /\ cli.pc = "end" /\ cli.message = "not running"
    /\ cli.s = StaleState /\ file = StaleState

\* C40: readDaemonState returns null (or a value that its callers take
\* for null, the number 0) or a record with the four members of a
\* descriptor and a non-empty token, and tryConnectDaemon makes no probe
\* whose port or token is undefined.
C40_ReadReturnsAbsentOrDescriptor ==
    cli.read # <<>>
    => LET got == cli.read[1].got IN
       /\ \/ got.val = <<>>
          \/ got.val[1] = [json |-> "number", n |-> 0]
          \/ /\ DOMAIN got.val[1] = {"pid", "port", "startedAt", "token"}
             /\ got.val[1].token # <<>>
       /\ ProbeOf(got) # <<>>
          => ProbeOf(got)[1].port # <<>> /\ ProbeOf(got)[1].token # <<>>

====
